---- MODULE Spec2Model ----
(***************************************************************************)
(* Verification model of the pecunovus node core:                          *)
(*   - txpool/pool.rs          TxPool (entries, priority heap, LRU index)  *)
(*   - state/account_lock.rs   AccountLocks (sharded per-key async mutex)  *)
(*   - runtime/executor.rs     Executor::execute_transactions              *)
(*   - consensus/*.rs          ConsensusState / ConsensusEngine            *)
(*   - state/account_cache.rs  AccountCache                                *)
(*   - network/*.rs            Connection, Gossiper, ConnectionManager     *)
(*   - node/*.rs, txpool/forwarder.rs   Node::start, ServiceHandle         *)
(* Each subsystem has its own specification (SpecPool, SpecLocks,          *)
(* SpecExec, SpecCons, SpecState / SpecPos for ConsensusState and          *)
(* ProofOfStake called directly, SpecCache, SpecConn, SpecGossip,          *)
(* SpecListen, SpecDialFair, SpecNodeFair, SpecPoh, SpecGossipSend,         *)
(* SpecPeers, and SpecCacheConc / SpecInsertConc / SpecPoolConc for the    *)
(* cache and the pool under concurrent callers); the variables of the      *)
(* other subsystems stay at their constructed values.                      *)
(***************************************************************************)
EXTENDS Integers, Sequences, FiniteSets, Bags, TLC

VARIABLES
    \* ---- TxPool (txpool/pool.rs) ----
    entries,        \* DashMap<TxId, Arc<TxEntry>>: function TxId -> [tx, meta]
    heap,           \* BinaryHeap<HeapItem>: a bag of HeapItem records
    lru,            \* LruCache<TxId, ()>: sequence of TxIds, least recent first
    max_size,       \* TxPool.max_size
    lru_capacity,   \* capacity handed to LruCache::new
    now,            \* the monotonic clock read by Instant::now()
    poolRet,        \* result of the last TxPool call
    \* ---- AccountLocks (state/account_lock.rs) ----
    shard_count,    \* AccountLocks.shard_count
    shardOwner,     \* holder of each shard's TokioMutex (None when free)
    shard_map,      \* the shard maps: key -> index of its Arc<TokioMutex<()>> (0: absent)
    mutexes,        \* every per-key TokioMutex created so far: [key, owner (None when free)]
    pc,             \* position of each task
    args,           \* the key list the task passed to acquire
    keys,           \* the task's local `keys` vector
    idx,            \* position of the `for key in keys` loop
    cur,            \* the task's local key_mutex_arc
    guards,         \* the OwnedMutexGuards the task holds (mutex indices, in push order)
    \* ---- Executor (runtime/executor.rs), AccountCache, account store ----
    batch,          \* the `txs` argument of execute_transactions; task i runs batch[i]
    cache,          \* AccountCache.map: key -> Option<[lamports, dirty]>
    store,          \* the backing AccountStore: key -> Option<lamports>
    local,          \* per task: from_acc, to_acc, success, err, post_balances
    receipt,        \* per task: the Receipt its JoinHandle yields (None until it ends)
    receipts,       \* the vector execute_transactions returns
    mainPc,         \* position of execute_transactions itself
    initial,        \* the store as it was when the batch was submitted
    saturated,      \* whether some saturating_add has clipped at u64::MAX
    \* ---- ConsensusEngine (consensus/mod.rs) and what it owns ----
    current_slot,       \* ConsensusState.current_slot
    total_stake,        \* ConsensusState.total_stake
    pending_proposals,  \* ConsensusState.pending_proposals: block_hash -> BlockProposal
    votes,              \* ConsensusState.votes: block_hash -> [voters, yes_weight]
    finalized,          \* ConsensusState.finalized
    stakes,             \* ProofOfStake.stakes: validator -> Option<stake>
    pos_total,          \* ProofOfStake.total
    poh,                \* PoH: [seed, counter]
    tower,              \* Tower.votes_by_validator: validator -> set of slots
    cpc,                \* position of each engine call under way
    cvote,              \* the vote that call is handling
    \* ---- Connection (network/connection.rs) ----
    conn,           \* the Connection value: "none", "held", "closed" (close() called) or "dropped"
    out_rx,         \* the outbound mpsc queue: messages accepted and not yet taken by the writer
    accepted,       \* the messages Connection::send has accepted, in order
    wire,           \* the frames the writer has written to the socket, in order
    stream,         \* the socket: "open", "closed" (the peer has closed its end) or "broken"
    arrived,        \* the frames that have arrived from the peer, in order
    unread,         \* those of them the reader has not taken yet
    inbound,        \* what the reader has sent on the inbound channel, in order
    reader,         \* the read loop: "none", "running" or "exited"
    writer,         \* the write loop: "none", "running" or "exited"
    \* ---- PeerStore and Gossiper (network/peerstore.rs, gossip.rs) ----
    peerstore,      \* PeerStore.inner: node_id -> addr
    dedup,          \* Gossiper.dedup: the serialized payloads seen, least recent first
    dedup_capacity, \* capacity handed to LruCache::new
    fanout,         \* Gossiper.fanout
    gpc,            \* position of each broadcast call
    gpayload,       \* the payload that call is forwarding
    contacted,      \* the peers the caller's latest broadcast spawned a send task for
    glog,           \* the broadcast calls in the order they took the dedup lock
    \* ---- ConnectionManager (network/manager.rs) ----
    lpc,            \* the listener's task for an accepted stream: "listening", "spawned", "done"
    dpc,            \* the connect_peer task: "none", "connect", "spawned", "sleep", "done"
    backoff,        \* its local `backoff` (ms)
    retries,        \* how often it has slept so far (counted up to MaxRetries)
    \* ---- Node and ServiceHandle (node/node.rs, node/service_handle.rs) ----
    shutdown_tx,    \* the value of the shutdown watch channel
    inbound_rx,     \* the node's inbound channel: messages not yet taken by the dispatcher
    task,           \* position of each task attached to the ServiceHandle
    svc,            \* ServiceHandle::shutdown: 0 not called, i awaiting join_handles[i], then returned
    \* ---- PoH called on its own (consensus/poh.rs) ----
    pohRet,         \* the last PoH call: its arguments, the seed it started from, its result
    \* ---- The send task Gossiper::broadcast spawns for one peer (network/gossip.rs) ----
    stask,          \* its position: "none", "connect", "send", "close", "done"
    spayload,       \* the payload it carries (None when there is no task)
    \* ---- AccountCache called by concurrent callers (state/account_cache.rs) ----
    ccall,          \* per caller: the call in progress, its position and its locals
    last_write,     \* per key: the account written by the last completed insert/modify
    ncalls,         \* how many calls have been started (counted up to MaxCacheCalls)
    \* ---- TxPool::insert called by concurrent callers (txpool/pool.rs) ----
    icall,          \* per caller: its insert call's position, tx, meta and result
    \* ---- PeerStore called on its own (network/peerstore.rs) ----
    inner,          \* PeerStore.inner: node_id -> PeerInfo
    instant         \* Instant::now(), in clock ticks

poolVars == <<entries, heap, lru, max_size, lru_capacity, now, poolRet>>
lockVars == <<shard_count, shardOwner, shard_map, mutexes, pc, args, keys, idx, cur, guards>>
execVars == <<batch, cache, store, local, receipt, receipts, mainPc, initial, saturated>>
consVars == <<current_slot, total_stake, pending_proposals, votes, finalized, stakes,
              pos_total, poh, tower, cpc, cvote>>
connVars == <<conn, out_rx, accepted, wire, stream, arrived, unread, inbound, reader, writer>>
gossVars == <<peerstore, dedup, dedup_capacity, fanout, gpc, gpayload, contacted, glog>>
mgrVars == <<lpc, dpc, backoff, retries>>
nodeVars == <<shutdown_tx, inbound_rx, task, svc>>
pohVars == <<pohRet>>
sendVars == <<stask, spayload>>
ccVars == <<ccall, last_write, ncalls>>
icVars == <<icall>>
psVars == <<inner, instant>>
extVars == <<pohVars, sendVars, ccVars, icVars, psVars>>
netVars == <<connVars, gossVars, mgrVars, nodeVars, extVars>>

vars == <<entries, heap, lru, max_size, lru_capacity, now, poolRet,
          shard_count, shardOwner, shard_map, mutexes, pc, args, keys, idx, cur, guards,
          batch, cache, store, local, receipt, receipts, mainPc, initial, saturated,
          current_slot, total_stake, pending_proposals, votes, finalized, stakes,
          pos_total, poh, tower, cpc, cvote, netVars>>

\* Option<T>: None is the empty sequence, Some(x) the one-element sequence.
None == <<>>
Some(x) == <<x>>
Unwrap(o) == o[1]

(***************************************************************************)
(*                              TxPool                                     *)
(***************************************************************************)

\* Bounds of the pool model.
MaxTime == 2          \* the clock runs over 0..MaxTime
MaxMaxSize == 2       \* max_size is drawn from 0..MaxMaxSize
MaxLruCap == 2        \* lru_capacity is drawn from 1..MaxLruCap
MaxLimit == 2         \* pop_priority limits are drawn from 0..MaxLimit
MaxHeap == 3          \* inserts stop once the heap holds MaxHeap items

\* TxPool.ttl, in clock ticks.
ttl == 1

\* The transactions offered to the pool. Account keys are one byte long.
TxA == [from |-> "a", to |-> "b", amount |-> 10, fee |-> 100, nonce |-> 1, payload |-> 0]
TxB == [from |-> "c", to |-> "d", amount |-> 5, fee |-> 10, nonce |-> 1, payload |-> 0]
TxC == [from |-> "a", to |-> "b", amount |-> 10, fee |-> 100, nonce |-> 2, payload |-> 0]
TxUniverse == {TxA, TxB, TxC}

KeyLen(k) == 1

\* Tx::serialized: bincode layout; only the content and the length matter.
\* String and Vec<u8> take an 8-byte length prefix, each u64 takes 8 bytes.
Serialized(tx) ==
    [bytes |-> <<tx.from, tx.to, tx.amount, tx.fee, tx.nonce, tx.payload>>,
     len |-> (8 + KeyLen(tx.from)) + (8 + KeyLen(tx.to)) + 8 + 8 + 8 + (8 + tx.payload)]

\* Tx::id: SHA-256 of the serialized bytes (collision-free on the universe).
TxIdOf(tx) == <<"sha256", Serialized(tx).bytes>>

\* Tx::size
TxSize(tx) == Serialized(tx).len

\* TxPool::compute_priority: fee / size as an exact fraction; size 0 => fee.
ComputePriority(tx) ==
    IF TxSize(tx) = 0 THEN [num |-> tx.fee, den |-> 1]
    ELSE [num |-> tx.fee, den |-> TxSize(tx)]

\* f64::partial_cmp on two priorities (never NaN here).
PartialCmp(p, q) ==
    IF p.num * q.den < q.num * p.den THEN "Less"
    ELSE IF p.num * q.den > q.num * p.den THEN "Greater"
    ELSE "Equal"

\* Instant::cmp
InstantCmp(s, t) == IF s < t THEN "Less" ELSE IF s > t THEN "Greater" ELSE "Equal"

\* impl Ord for HeapItem: cmp(self, other)
HeapItemCmp(self, other) ==
    LET byPrio == PartialCmp(other.priority, self.priority)
    IN IF byPrio # "Equal" THEN byPrio
       ELSE InstantCmp(self.inserted_at, other.inserted_at)

\* BinaryHeap::pop yields a greatest item of the heap (std's BinaryHeap is a
\* max-heap); which one among equal greatest items is up to the heap layout.
HeapMaxItems(h) ==
    {x \in BagToSet(h) : \A y \in BagToSet(h) : HeapItemCmp(y, x) # "Greater"}

BagRemoveOne(h, x) == h (-) SetToBag({x})
BagAddOne(h, x) == h (+) SetToBag({x})

\* Sequence helpers for the LRU index.
SeqRemove(s, k) == SelectSeq(s, LAMBDA e : e # k)
SeqHas(s, k) == \E i \in 1..Len(s) : s[i] = k

\* LruCache::put(k, ()): a present key becomes most recent; a new key evicts the
\* least recent one when the cache is at capacity.
LruPut(l, cap, k) ==
    IF SeqHas(l, k) THEN Append(SeqRemove(l, k), k)
    ELSE IF Len(l) >= cap THEN Append(Tail(l), k)
    ELSE Append(l, k)

\* LruCache::pop(k)
LruPop(l, k) == SeqRemove(l, k)

MapRemove(m, k) == [x \in DOMAIN m \ {k} |-> m[x]]
MapPut(m, k, v) == [x \in DOMAIN m \cup {k} |-> IF x = k THEN v ELSE m[x]]
EmptyMap == [x \in {} |-> None]

PoolNew ==
    /\ entries = EmptyMap
    /\ heap = EmptyBag
    /\ lru = <<>>
    /\ max_size \in 0..MaxMaxSize
    /\ lru_capacity \in 1..MaxLruCap
    /\ now = 0
    /\ poolRet = [op |-> "new"]

\* evict_low_priority that takes the most recently used txid as its victim.
EvictMostRecent(e, l) ==
    IF Len(l) > 0
    THEN [evicted |-> TRUE, victim |-> l[Len(l)], entries |-> MapRemove(e, l[Len(l)]),
          lru |-> SubSeq(l, 1, Len(l) - 1)]
    ELSE [evicted |-> FALSE, victim |-> None, entries |-> e, lru |-> l]

\* evict_low_priority that pops the LRU index and leaves entries alone.
EvictLowPriorityKeepEntry(e, l) ==
    IF Len(l) > 0
    THEN [evicted |-> TRUE, victim |-> Head(l), entries |-> e, lru |-> Tail(l)]
    ELSE [evicted |-> FALSE, victim |-> None, entries |-> e, lru |-> l]

\* TxPool::evict_low_priority: [evicted, entries, lru] after the attempt.
EvictLowPriority(e, l) ==
    IF Len(l) > 0
    THEN [evicted |-> TRUE, victim |-> Head(l), entries |-> MapRemove(e, Head(l)), lru |-> Tail(l)]
    ELSE [evicted |-> FALSE, victim |-> None, entries |-> e, lru |-> l]

\* insert without the duplicate check: the entry is stored again.
InsertReplacing(tx) ==
    LET txid == TxIdOf(tx) IN
    IF FALSE
    THEN /\ poolRet' = [op |-> "insert", tx |-> tx, res |-> "Duplicate"]
         /\ UNCHANGED <<entries, heap, lru, max_size, lru_capacity, now>>
    ELSE LET full == Cardinality(DOMAIN entries) >= max_size
             ev == IF full THEN EvictLowPriority(entries, lru)
                   ELSE [evicted |-> FALSE, victim |-> None, entries |-> entries, lru |-> lru]
         IN IF full /\ ~ev.evicted
            THEN /\ poolRet' = [op |-> "insert", tx |-> tx, res |-> "PoolFull"]
                 /\ UNCHANGED <<entries, heap, lru, max_size, lru_capacity, now>>
            ELSE LET prio == ComputePriority(tx)
                     meta == [id |-> txid, inserted_at |-> now, priority |-> prio,
                              last_seen |-> now, ttl |-> ttl]
                 IN /\ entries' = MapPut(ev.entries, txid, [tx |-> tx, meta |-> meta])
                    /\ heap' = BagAddOne(heap, [id |-> txid, priority |-> prio, inserted_at |-> now])
                    /\ lru' = LruPut(ev.lru, lru_capacity, txid)
                    /\ poolRet' = [op |-> "insert", tx |-> tx, res |-> "Ok", meta |-> meta,
                                   victim |-> ev.victim]
                    /\ UNCHANGED <<max_size, lru_capacity, now>>

\* TxPool::insert
Insert(tx) ==
    LET txid == TxIdOf(tx) IN
    IF txid \in DOMAIN entries
    THEN /\ poolRet' = [op |-> "insert", tx |-> tx, res |-> "Duplicate"]
         /\ UNCHANGED <<entries, heap, lru, max_size, lru_capacity, now>>
    ELSE LET full == Cardinality(DOMAIN entries) >= max_size
             ev == IF full THEN EvictLowPriority(entries, lru)
                   ELSE [evicted |-> FALSE, victim |-> None, entries |-> entries, lru |-> lru]
         IN IF full /\ ~ev.evicted
            THEN /\ poolRet' = [op |-> "insert", tx |-> tx, res |-> "PoolFull"]
                 /\ UNCHANGED <<entries, heap, lru, max_size, lru_capacity, now>>
            ELSE LET prio == ComputePriority(tx)
                     meta == [id |-> txid, inserted_at |-> now, priority |-> prio,
                              last_seen |-> now, ttl |-> ttl]
                 IN /\ entries' = MapPut(ev.entries, txid, [tx |-> tx, meta |-> meta])
                    /\ heap' = BagAddOne(heap, [id |-> txid, priority |-> prio, inserted_at |-> now])
                    /\ lru' = LruPut(ev.lru, lru_capacity, txid)
                    /\ poolRet' = [op |-> "insert", tx |-> tx, res |-> "Ok", meta |-> meta,
                                   victim |-> ev.victim]
                    /\ UNCHANGED <<max_size, lru_capacity, now>>

\* The loop of TxPool::pop_priority: the set of possible outcomes
\* [heap, entries, lru, selected] from the given loop state.
RECURSIVE PopLoop(_, _, _, _, _)
PopLoop(h, e, l, selected, limit) ==
    IF ~(Len(selected) < limit) \/ h = EmptyBag
    THEN {[heap |-> h, entries |-> e, lru |-> l, selected |-> selected]}
    ELSE UNION {
        LET h2 == BagRemoveOne(h, item) IN
        IF item.id \in DOMAIN e
        THEN PopLoop(h2, MapRemove(e, item.id), LruPop(l, item.id),
                     Append(selected, e[item.id]), limit)
        ELSE PopLoop(h2, e, l, selected, limit)
        : item \in HeapMaxItems(h)}

\* TxPool::pop_priority. The result keeps each popped entry (tx and meta) so
\* that the order of the returned transactions can be examined.
PopPriority(limit) ==
    \E out \in PopLoop(heap, entries, lru, <<>>, limit) :
        /\ heap' = out.heap
        /\ entries' = out.entries
        /\ lru' = out.lru
        /\ poolRet' = [op |-> "pop", limit |-> limit, selected |-> out.selected]
        /\ UNCHANGED <<max_size, lru_capacity, now>>

\* TxPool::remove
Remove(txid) ==
    /\ entries' = MapRemove(entries, txid)
    /\ lru' = LruPop(lru, txid)
    /\ poolRet' = [op |-> "remove", id |-> txid]
    /\ UNCHANGED <<heap, max_size, lru_capacity, now>>

\* TxPool::get and TxPool::len
PoolGet(e, txid) == IF txid \in DOMAIN e THEN Some(e[txid].tx) ELSE None
PoolLen(e) == Cardinality(DOMAIN e)

\* Expired with `>=` in place of `>`: an entry is collected at the very
\* instant its age reaches its ttl.
ExpiredAtTtl(e, t) == {k \in DOMAIN e : t - e[k].meta.inserted_at >= e[k].meta.ttl}

\* The keys TxPool::gc_ttl collects: entries older than their ttl.
Expired(e, t) == {k \in DOMAIN e : t - e[k].meta.inserted_at > e[k].meta.ttl}

RECURSIVE LruPopAll(_, _)
LruPopAll(l, ks) ==
    IF ks = {} THEN l
    ELSE LET k == CHOOSE x \in ks : TRUE IN LruPopAll(LruPop(l, k), ks \ {k})

\* TxPool::gc_ttl
GcTtl ==
    LET gone == Expired(entries, now) IN
    /\ entries' = [x \in DOMAIN entries \ gone |-> entries[x]]
    /\ lru' = LruPopAll(lru, gone)
    /\ poolRet' = [op |-> "gc_ttl", gone |-> gone]
    /\ UNCHANGED <<heap, max_size, lru_capacity, now>>

\* The clock advances between calls.
Tick ==
    /\ now < MaxTime
    /\ now' = now + 1
    /\ poolRet' = [op |-> "tick"]
    /\ UNCHANGED <<entries, heap, lru, max_size, lru_capacity>>

\* A pool that is constructed and never used (the other specifications).
PoolIdle ==
    /\ entries = EmptyMap
    /\ heap = EmptyBag
    /\ lru = <<>>
    /\ max_size = 0
    /\ lru_capacity = 1
    /\ now = 0
    /\ poolRet = [op |-> "new"]

(***************************************************************************)
(*                            AccountLocks                                 *)
(***************************************************************************)

\* Bounds of the lock model.
NTasks == 2           \* concurrent tasks 1..NTasks
MaxKeys == 2          \* a key list given to acquire has at most MaxKeys keys
MaxShards == 2        \* shard_count is drawn from 1..MaxShards

Tasks == 1..NTasks

\* Account keys, in lexicographic order of the strings.
Accounts == {"a", "b"}
KeyRank(k) == IF k = "a" THEN 1 ELSE 2
KeyLess(j, k) == KeyRank(j) < KeyRank(k)

\* XxHash64 of the key bytes (a fixed function of the key).
KeyHash(k) == IF k = "a" THEN 6 ELSE 9

\* AccountLocks::shard_for
ShardFor(k, count) == KeyHash(k) % count

\* Vec::sort on account keys (insertion into the sorted prefix).
RECURSIVE SortInsert(_, _)
SortInsert(s, k) ==
    IF s = <<>> THEN <<k>>
    ELSE IF KeyLess(k, Head(s)) THEN <<k>> \o s
    ELSE <<Head(s)>> \o SortInsert(Tail(s), k)

RECURSIVE SortKeys(_)
SortKeys(s) == IF s = <<>> THEN <<>> ELSE SortInsert(SortKeys(Tail(s)), Head(s))

\* Vec::dedup: drops consecutive repeated elements.
RECURSIVE Dedup(_)
Dedup(s) ==
    IF Len(s) <= 1 THEN s
    ELSE IF s[1] = s[2] THEN Dedup(Tail(s))
    ELSE <<Head(s)>> \o Dedup(Tail(s))

\* The key lists a caller may pass: every sequence of at most MaxKeys keys.
KeyLists == UNION {[1..n -> Accounts] : n \in 0..MaxKeys}

\* AccountLocks::new(shard_count)
LocksNew ==
    /\ shard_count \in 1..MaxShards
    /\ shardOwner = [sid \in 0..(shard_count - 1) |-> None]
    /\ shard_map = [k \in Accounts |-> 0]
    /\ mutexes = <<>>
    /\ pc = [t \in Tasks |-> "idle"]
    /\ args = [t \in Tasks |-> <<>>]
    /\ keys = [t \in Tasks |-> <<>>]
    /\ idx = [t \in Tasks |-> 0]
    /\ cur = [t \in Tasks |-> 0]
    /\ guards = [t \in Tasks |-> <<>>]

\* Mutant of AcquireOrder: the keys are locked in the order given.
AcquireOrderAsGiven(ks) == ks

\* The ordering step at the head of AccountLocks::acquire.
AcquireOrder(ks) == SortKeys(ks)

\* Where the `for key in keys` loop stands after i keys have been taken.
LoopPc(ks, i) == IF i >= Len(ks) THEN "held" ELSE "shard"

\* AccountLocks::acquire is entered with key list ks: keys.sort(), guards = [].
AcquireEnter(t, ks) ==
    /\ args' = [args EXCEPT ![t] = ks]
    /\ keys' = [keys EXCEPT ![t] = AcquireOrder(ks)]
    /\ idx' = [idx EXCEPT ![t] = 0]
    /\ guards' = [guards EXCEPT ![t] = <<>>]
    /\ pc' = [pc EXCEPT ![t] = LoopPc(AcquireOrder(ks), 0)]
    /\ UNCHANGED <<shard_count, shardOwner, shard_map, mutexes, cur>>

\* self.shards[sid].lock().await for the current key.
ShardLock(t) ==
    /\ pc[t] = "shard"
    /\ LET sid == ShardFor(keys[t][idx[t] + 1], shard_count) IN
       /\ shardOwner[sid] = None
       /\ shardOwner' = [shardOwner EXCEPT ![sid] = Some(t)]
    /\ pc' = [pc EXCEPT ![t] = "map"]
    /\ UNCHANGED <<shard_count, shard_map, mutexes, args, keys, idx, cur, guards>>

\* Mutant of GetOrInsert: a new mutex is made on every lookup.
GetOrInsertFresh(m, mx, k) ==
    [map |-> [m EXCEPT ![k] = Len(mx) + 1],
     mutexes |-> Append(mx, [key |-> k, owner |-> None]),
     arc |-> Len(mx) + 1]

\* The lookup under the shard lock: [map, mutexes, arc] after get-or-insert of k.
GetOrInsert(m, mx, k) ==
    IF m[k] # 0
    THEN [map |-> m, mutexes |-> mx, arc |-> m[k]]
    ELSE [map |-> [m EXCEPT ![k] = Len(mx) + 1],
          mutexes |-> Append(mx, [key |-> k, owner |-> None]),
          arc |-> Len(mx) + 1]

\* The block that holds the shard map: get or insert the key's mutex, then
\* release the shard lock at the end of the block.
ShardLookup(t) ==
    /\ pc[t] = "map"
    /\ LET k == keys[t][idx[t] + 1]
           sid == ShardFor(k, shard_count)
           got == GetOrInsert(shard_map, mutexes, k)
       IN /\ shard_map' = got.map
          /\ mutexes' = got.mutexes
          /\ cur' = [cur EXCEPT ![t] = got.arc]
          /\ shardOwner' = [shardOwner EXCEPT ![sid] = None]
    /\ pc' = [pc EXCEPT ![t] = "lock"]
    /\ UNCHANGED <<shard_count, args, keys, idx, guards>>

\* Mutant of CanLock: the mutex does not exclude a second owner.
CanLockAlways(m, t) == TRUE

\* tokio Mutex::lock_owned can complete for task t on mutex m.
CanLock(m, t) == mutexes[m].owner = None

\* key_mutex_arc.lock_owned().await; guards.push(guard); next key.
KeyLock(t) ==
    /\ pc[t] = "lock"
    /\ CanLock(cur[t], t)
    /\ mutexes' = [mutexes EXCEPT ![cur[t]].owner = Some(t)]
    /\ guards' = [guards EXCEPT ![t] = Append(guards[t], cur[t])]
    /\ idx' = [idx EXCEPT ![t] = idx[t] + 1]
    /\ pc' = [pc EXCEPT ![t] = LoopPc(keys[t], idx[t] + 1)]
    /\ UNCHANGED <<shard_count, shardOwner, shard_map, cur, args, keys>>

\* Drop of LockGuard: the Vec drops its OwnedMutexGuards front to back, each
\* releasing its mutex. `after` is the task's position once all are released.
GuardDrop(t, after) ==
    /\ IF guards[t] = <<>>
       THEN UNCHANGED <<mutexes, guards>>
       ELSE /\ mutexes' = [mutexes EXCEPT ![Head(guards[t])].owner = None]
            /\ guards' = [guards EXCEPT ![t] = Tail(guards[t])]
    /\ pc' = [pc EXCEPT ![t] = IF Len(guards[t]) <= 1 THEN after ELSE "dropping"]
    /\ UNCHANGED <<shard_count, shardOwner, shard_map, args, keys, idx, cur>>

\* A caller of the lock manager: calls acquire once with some key list, holds
\* the returned LockGuard for a while and drops it.
CallerAcquire(t) ==
    /\ pc[t] = "idle"
    /\ \E ks \in KeyLists : AcquireEnter(t, ks)

\* A key list that names some key more than once.
HasRepeat(ks) == \E i, j \in 1..Len(ks) : i < j /\ ks[i] = ks[j]

\* A caller that passes a key list without repeated keys.
CallerAcquireDistinct(t) ==
    /\ pc[t] = "idle"
    /\ \E ks \in {l \in KeyLists : ~HasRepeat(l)} : AcquireEnter(t, ks)

CallerDrop(t) ==
    /\ pc[t] \in {"held", "dropping"}
    /\ GuardDrop(t, "done")

(***************************************************************************)
(*                 Executor, AccountCache, account store                   *)
(***************************************************************************)

\* u64::MAX, scaled down so that a credit can saturate within the model.
U64Max == 120

\* Transfer amounts and initial balances (None: the account does not exist).
Amounts == {30, 40}
InitBalances == {None, Some(50), Some(100)}

\* The transactions a batch is drawn from (nonce is carried along unused).
Transactions == [from : Accounts, to : Accounts, amount : Amounts, nonce : {1}]
Batches == UNION {[1..n -> Transactions] : n \in 1..NTasks}

\* u64::saturating_sub / u64::saturating_add
SaturatingSub(x, y) == IF x < y THEN 0 ELSE x - y
SaturatingAdd(x, y) == IF x + y > U64Max THEN U64Max ELSE x + y

NoLocal == [from_acc |-> 0, to_acc |-> 0, success |-> FALSE, err |-> None,
            post_balances |-> None]

\* Executor::new over a fresh AccountCache and store; nothing submitted.
ExecIdle ==
    /\ batch = <<>>
    /\ cache = [k \in Accounts |-> None]
    /\ store = [k \in Accounts |-> None]
    /\ local = [t \in Tasks |-> NoLocal]
    /\ receipt = [t \in Tasks |-> None]
    /\ receipts = <<>>
    /\ mainPc = "idle"
    /\ initial = [k \in Accounts |-> None]
    /\ saturated = FALSE

\* execute_transactions(txs) is called on some stored accounts.
ExecNew ==
    /\ batch \in Batches
    /\ cache = [k \in Accounts |-> None]
    /\ store \in [Accounts -> InitBalances]
    /\ local = [t \in Tasks |-> NoLocal]
    /\ receipt = [t \in Tasks |-> None]
    /\ receipts = <<>>
    /\ mainPc = "join"
    /\ initial = store
    /\ saturated = FALSE

\* execute_transactions(txs) with zero-amount transfers among txs.
ZeroAmounts == {0, 30}
ZeroTransactions == [from : Accounts, to : Accounts, amount : ZeroAmounts, nonce : {1}]
ZeroBatches == UNION {[1..n -> ZeroTransactions] : n \in 1..NTasks}
ExecNewZero ==
    /\ batch \in ZeroBatches
    /\ cache = [k \in Accounts |-> None]
    /\ store \in [Accounts -> InitBalances]
    /\ local = [t \in Tasks |-> NoLocal]
    /\ receipt = [t \in Tasks |-> None]
    /\ receipts = <<>>
    /\ mainPc = "join"
    /\ initial = store
    /\ saturated = FALSE

\* AccountCache::get that caches what it loads as a dirty entry.
CacheGetMarkDirty(c, st, k) ==
    IF c[k] # None THEN [cache |-> c, account |-> Some(Unwrap(c[k]).lamports)]
    ELSE IF st[k] # None
         THEN [cache |-> [c EXCEPT ![k] = Some([lamports |-> Unwrap(st[k]), dirty |-> TRUE])],
               account |-> st[k]]
         ELSE [cache |-> [c EXCEPT ![k] = Some([lamports |-> 0, dirty |-> TRUE])],
               account |-> None]

\* AccountCache::get: [cache, account] after the call (an account is its lamports).
CacheGet(c, st, k) ==
    IF c[k] # None THEN [cache |-> c, account |-> Some(Unwrap(c[k]).lamports)]
    ELSE IF st[k] # None
         THEN [cache |-> [c EXCEPT ![k] = Some([lamports |-> Unwrap(st[k]), dirty |-> FALSE])],
               account |-> st[k]]
         ELSE [cache |-> c, account |-> None]

\* AccountCache::insert that stores the entry as clean.
CacheInsertClean(c, k, lamports) ==
    [c EXCEPT ![k] = Some([lamports |-> lamports, dirty |-> FALSE])]

\* AccountCache::insert
CacheInsert(c, k, lamports) ==
    [c EXCEPT ![k] = Some([lamports |-> lamports, dirty |-> TRUE])]

\* AccountCache::flush: [cache, store] after writing the dirty entries back.
CacheFlush(c, st) ==
    [cache |-> [k \in Accounts |->
                   IF c[k] # None THEN Some([Unwrap(c[k]) EXCEPT !.dirty = FALSE]) ELSE None],
     store |-> [k \in Accounts |->
                   IF c[k] # None /\ Unwrap(c[k]).dirty
                   THEN Some(Unwrap(c[k]).lamports) ELSE st[k]]]

\* Option::unwrap_or_else(|| Account::new(0, "system", vec![]))
OrDefault(acc) == IF acc = None THEN 0 ELSE Unwrap(acc)

\* The spawned task starts: keys = [from, to]; sort; dedup; locks.acquire(keys).
TaskStart(t) ==
    /\ mainPc = "join"
    /\ t \in DOMAIN batch
    /\ pc[t] = "idle"
    /\ AcquireEnter(t, Dedup(SortKeys(<<batch[t].from, batch[t].to>>)))
    /\ UNCHANGED execVars

\* let from_acc_opt = cache.get(&tx.from)
ReadFrom(t) ==
    /\ mainPc = "join"
    /\ pc[t] = "held"
    /\ LET got == CacheGet(cache, store, batch[t].from) IN
       /\ cache' = got.cache
       /\ local' = [local EXCEPT ![t].from_acc = OrDefault(got.account)]
    /\ pc' = [pc EXCEPT ![t] = "read_to"]
    /\ UNCHANGED <<shard_count, shardOwner, shard_map, mutexes, args, keys, idx, cur, guards>>
    /\ UNCHANGED <<batch, store, receipt, receipts, mainPc, initial, saturated>>

\* let to_acc_opt = cache.get(&tx.to)
ReadTo(t) ==
    /\ pc[t] = "read_to"
    /\ LET got == CacheGet(cache, store, batch[t].to) IN
       /\ cache' = got.cache
       /\ local' = [local EXCEPT ![t].to_acc = OrDefault(got.account)]
    /\ pc' = [pc EXCEPT ![t] = "apply"]
    /\ UNCHANGED <<shard_count, shardOwner, shard_map, mutexes, args, keys, idx, cur, guards>>
    /\ UNCHANGED <<batch, store, receipt, receipts, mainPc, initial, saturated>>

\* The funds check; on success the debit, the credit and cache.insert(from).
Apply(t) ==
    /\ pc[t] = "apply"
    /\ LET tx == batch[t]
           l == local[t]
       IN IF l.from_acc < tx.amount
          THEN /\ local' = [local EXCEPT ![t].err = Some("insufficient funds")]
               /\ pc' = [pc EXCEPT ![t] = "release"]
               /\ UNCHANGED <<cache, saturated>>
          ELSE /\ local' = [local EXCEPT
                                ![t].from_acc = SaturatingSub(l.from_acc, tx.amount),
                                ![t].to_acc = SaturatingAdd(l.to_acc, tx.amount)]
               /\ cache' = CacheInsert(cache, tx.from, SaturatingSub(l.from_acc, tx.amount))
               /\ saturated' = (saturated \/ l.to_acc + tx.amount > U64Max)
               /\ pc' = [pc EXCEPT ![t] = "insert_to"]
    /\ UNCHANGED <<shard_count, shardOwner, shard_map, mutexes, args, keys, idx, cur, guards>>
    /\ UNCHANGED <<batch, store, receipt, receipts, mainPc, initial>>

\* cache.insert(to); success = true; post_balances = Some(..)
InsertTo(t) ==
    /\ pc[t] = "insert_to"
    /\ cache' = CacheInsert(cache, batch[t].to, local[t].to_acc)
    /\ local' = [local EXCEPT ![t].success = TRUE,
                              ![t].post_balances = Some(<<local[t].from_acc, local[t].to_acc>>)]
    /\ pc' = [pc EXCEPT ![t] = "release"]
    /\ UNCHANGED <<shard_count, shardOwner, shard_map, mutexes, args, keys, idx, cur, guards>>
    /\ UNCHANGED <<batch, store, receipt, receipts, mainPc, initial, saturated>>

\* drop(guard); the task ends with its Receipt.
Release(t) ==
    /\ pc[t] \in {"release", "dropping"}
    /\ mainPc = "join"
    /\ GuardDrop(t, "done")
    /\ receipt' = [receipt EXCEPT ![t] =
           IF Len(guards[t]) <= 1
           THEN Some([tx |-> batch[t], success |-> local[t].success, err |-> local[t].err,
                      post_balances |-> local[t].post_balances])
           ELSE receipt[t]]
    /\ UNCHANGED <<batch, cache, store, local, receipts, mainPc, initial, saturated>>

\* The join loop with the handles taken from the back of the vector.
JoinReversedAndFlush ==
    /\ mainPc = "join"
    /\ \A t \in DOMAIN batch : pc[t] = "done"
    /\ receipts' = [i \in DOMAIN batch |-> Unwrap(receipt[Len(batch) + 1 - i])]
    /\ LET f == CacheFlush(cache, store) IN
       /\ cache' = f.cache
       /\ store' = f.store
    /\ mainPc' = "returned"
    /\ UNCHANGED <<batch, local, receipt, initial, saturated>>
    /\ UNCHANGED lockVars

\* The join loop collects the receipts in input order, then cache.flush().
JoinAndFlush ==
    /\ mainPc = "join"
    /\ \A t \in DOMAIN batch : pc[t] = "done"
    /\ receipts' = [i \in DOMAIN batch |-> Unwrap(receipt[i])]
    /\ LET f == CacheFlush(cache, store) IN
       /\ cache' = f.cache
       /\ store' = f.store
    /\ mainPc' = "returned"
    /\ UNCHANGED <<batch, local, receipt, initial, saturated>>
    /\ UNCHANGED lockVars


(***************************************************************************)
(*        ConsensusState, ProofOfStake, PoH, Tower, ConsensusEngine        *)
(***************************************************************************)

\* Bounds of the consensus model.
MaxPoh == 1           \* propose_if_leader is called while poh.counter < MaxPoh
HashSpace == 8        \* SHA-256 digests are taken from 0..HashSpace-1

\* The engine calls that can be under way at once.
Callers == {1, 2}

\* ConsensusEngine.node_id and the validator ids seen on the network,
\* in the order of their strings.
node_id == "n1"
Validators == {"n1", "n2"}
ValRank(v) == IF v = "n1" THEN 1 ELSE IF v = "n2" THEN 2 ELSE 3
Stakes == {1}

\* SHA-256 on the digest space (a bijection of it), and on hex text.
Sha256(x) == (5 * x + 3) % HashSpace
Sha256OfHex(x) == (3 * x + 5) % HashSpace

\* hash_bytes("proposal:{node}:{slot}"): one digest per (node, slot).
ProposalHash(node, slot) == <<node, slot>>

\* What the network can deliver: proposals of the other node for slots 1
\* and 2 carrying any of the digests this node gives its own proposals of
\* those slots, and the votes of both nodes for these digests.
Slots == {1, 2}
Hashes == {ProposalHash(node_id, sl) : sl \in Slots}
NetProposals == [proposer : {"n2"}, slot : Slots, block_hash : Hashes, poh_hash : {None}]
NetVotes == {[validator |-> v, slot |-> sl, block_hash |-> ProposalHash(node_id, sl),
              signature |-> <<>>] : v \in Validators, sl \in Slots}

\* ConsensusEngine::new
ConsNew ==
    /\ current_slot = 0
    /\ total_stake = 0
    /\ pending_proposals = EmptyMap
    /\ votes = EmptyMap
    /\ finalized = <<>>
    /\ stakes = [v \in Validators |-> None]
    /\ pos_total = 0
    /\ poh = [seed |-> 0, counter |-> 0]
    /\ tower = [v \in Validators |-> {}]
    /\ cpc = [c \in Callers |-> "idle"]
    /\ cvote = [c \in Callers |-> None]

\* ProofOfStake::register: [stakes, total] after the call.
PosRegister(sk, total, v, stake) ==
    LET old == IF sk[v] = None THEN 0 ELSE Unwrap(sk[v])
        t1 == SaturatingSub(total, old)
    IN [stakes |-> [sk EXCEPT ![v] = Some(stake)], total |-> SaturatingAdd(t1, stake)]

\* ProofOfStake.ordered: the registered validators sorted by id.
RECURSIVE OrderedFrom(_, _)
OrderedFrom(sk, vs) ==
    IF vs = {} THEN <<>>
    ELSE LET v == CHOOSE x \in vs : \A y \in vs : ValRank(x) <= ValRank(y)
         IN <<[validator |-> v, stake |-> Unwrap(sk[v])]>> \o OrderedFrom(sk, vs \ {v})
Ordered(sk) == OrderedFrom(sk, {v \in DOMAIN sk : sk[v] # None})

\* The walk of select_leader_with_seed over ordered[i..], acc the running sum.
RECURSIVE LeaderWalk(_, _, _, _)
LeaderWalk(ord, i, acc, pick) ==
    IF i > Len(ord) THEN Some(ord[Len(ord)].validator)
    ELSE IF pick < acc + ord[i].stake THEN Some(ord[i].validator)
    ELSE LeaderWalk(ord, i + 1, acc + ord[i].stake, pick)

\* ProofOfStake::select_leader_with_seed
SelectLeaderWithSeed(sk, total, seedHex) ==
    IF Ordered(sk) = <<>> \/ total = 0 THEN None
    ELSE LeaderWalk(Ordered(sk), 1, 0, Sha256OfHex(seedHex) % total)

\* ProofOfStake::select_leader (round-robin by slot)
SelectLeader(sk, slot) ==
    IF Ordered(sk) = <<>> THEN None
    ELSE Some(Ordered(sk)[(slot % Len(Ordered(sk))) + 1].validator)

\* Sha256 applied n times, as a table over the digest space.
RECURSIVE ShaTimes(_)
ShaTimes(n) ==
    IF n = 0 THEN [x \in 0..(HashSpace - 1) |-> x]
    ELSE IF n % 2 = 0
         THEN LET f == ShaTimes(n \div 2) IN [x \in 0..(HashSpace - 1) |-> f[f[x]]]
         ELSE LET f == ShaTimes(n - 1) IN [x \in 0..(HashSpace - 1) |-> Sha256(f[x])]
IterSha(h, n) == ShaTimes(n)[h]

\* PoH::generate returning the hex of the seed it leaves behind instead of
\* the hex of the chain's end.
PohGenerateNextSeed(p, iterations) ==
    LET h == IterSha(p.seed, iterations)
        counter == p.counter + 1
    IN [poh |-> [seed |-> Sha256((h + counter) % HashSpace), counter |-> counter],
        out |-> Sha256((h + counter) % HashSpace)]

\* PoH::generate: [poh, out] -- out is the digest whose hex text is returned.
PohGenerate(p, iterations) ==
    LET h == IterSha(p.seed, iterations)
        counter == p.counter + 1
    IN [poh |-> [seed |-> Sha256((h + counter) % HashSpace), counter |-> counter],
        out |-> h]

\* PoH::verify; a hex text is held as the digest it encodes (hex::encode is
\* one-to-one, so two texts are equal exactly when their digests are).
PohVerify(seed, iterations, expected_hex) == IterSha(seed, iterations) = expected_hex

\* ConsensusState::insert_pending_proposal
InsertPendingProposal(pend, block_hash, proposal) == MapPut(pend, block_hash, proposal)

\* record_vote without the voter-set check: every call counts.
RecordVoteCountingRepeats(vs, vote) ==
    LET key == vote.block_hash
        e == IF key \in DOMAIN vs THEN vs[key] ELSE [voters |-> {}, yes_weight |-> 0]
    IN [votes |-> MapPut(vs, key, [voters |-> e.voters \cup {vote.validator},
                                   yes_weight |-> e.yes_weight + 1]),
        ret |-> TRUE]

\* ConsensusState::record_vote: [votes, ret] after the call.
RecordVote(vs, vote) ==
    LET key == vote.block_hash
        e == IF key \in DOMAIN vs THEN vs[key] ELSE [voters |-> {}, yes_weight |-> 0]
    IN IF vote.validator \in e.voters
       THEN [votes |-> MapPut(vs, key, e), ret |-> FALSE]
       ELSE [votes |-> MapPut(vs, key, [voters |-> e.voters \cup {vote.validator},
                                        yes_weight |-> e.yes_weight + 1]),
             ret |-> TRUE]

\* u128 arithmetic wraps at the square of the u64 range.
U128Mod == (U64Max + 1) * (U64Max + 1)

\* try_finalize with the products taken in u64 instead of u128.
TryFinalizeInU64(vs, total, block_hash) ==
    IF block_hash \in DOMAIN vs
    THEN IF total = 0 THEN FALSE
         ELSE (vs[block_hash].yes_weight * 3) % (U64Max + 1) >= (total * 2) % (U64Max + 1)
    ELSE FALSE

\* ConsensusState::try_finalize
TryFinalize(vs, total, block_hash) ==
    IF block_hash \in DOMAIN vs
    THEN LET yes == vs[block_hash].yes_weight
         IN IF total = 0 THEN FALSE
            ELSE (yes * 3) % U128Mod >= (total * 2) % U128Mod
    ELSE FALSE

\* ConsensusState::has_finalized_slot
HasFinalizedSlot(fin, slot) == \E i \in 1..Len(fin) : fin[i].slot = slot

\* finalize_block that reads the pending proposal without removing it.
FinalizeBlockKeepPending(pend, fin, block_hash) ==
    IF block_hash \in DOMAIN pend
    THEN LET proposal == pend[block_hash]
             fb == [slot |-> proposal.slot, block_hash |-> block_hash,
                    proposer |-> proposal.proposer]
         IN [pending |-> pend, finalized |-> Append(fin, fb), ret |-> Some(fb)]
    ELSE [pending |-> pend, finalized |-> fin, ret |-> None]

\* ConsensusState::finalize_block: [pending, finalized, ret] after the call.
FinalizeBlock(pend, fin, block_hash) ==
    IF block_hash \in DOMAIN pend
    THEN LET proposal == pend[block_hash]
             fb == [slot |-> proposal.slot, block_hash |-> block_hash,
                    proposer |-> proposal.proposer]
         IN [pending |-> MapRemove(pend, block_hash),
             finalized |-> Append(fin, fb), ret |-> Some(fb)]
    ELSE [pending |-> pend, finalized |-> fin, ret |-> None]

\* Tower::record_vote
TowerRecordVote(tw, vote) == [tw EXCEPT ![vote.validator] = @ \cup {vote.slot}]

\* ConsensusEngine::register_validator
RegisterValidator(v, stake) ==
    LET r == PosRegister(stakes, pos_total, v, stake) IN
    /\ stakes' = r.stakes
    /\ pos_total' = r.total
    /\ total_stake' = r.total
    /\ UNCHANGED <<current_slot, pending_proposals, votes, finalized, poh, tower,
                   cpc, cvote>>

\* ConsensusEngine::propose_if_leader: poh.generate, select_leader_with_seed
\* and, for the leader, next_slot and insert_pending_proposal (send_proposal
\* leaves the engine's state alone).
ProposeIfLeader ==
    LET g == PohGenerate(poh, 256)
        leader == SelectLeaderWithSeed(stakes, pos_total, g.out)
    IN /\ poh' = g.poh
       /\ IF leader = Some(node_id)
          THEN LET slot == current_slot + 1
                   block_hash == ProposalHash(node_id, slot)
                   proposal == [proposer |-> node_id, slot |-> slot,
                                block_hash |-> block_hash, poh_hash |-> Some(g.out)]
               IN /\ current_slot' = slot
                  /\ pending_proposals' =
                         InsertPendingProposal(pending_proposals, block_hash, proposal)
          ELSE UNCHANGED <<current_slot, pending_proposals>>
       /\ UNCHANGED <<total_stake, votes, finalized, stakes, pos_total, tower,
                      cpc, cvote>>

\* ConsensusEngine::handle_proposal up to the call of handle_vote: the
\* expected leader is looked up and not used, then come the checks and the
\* insert under the state lock, and the local vote is built.
HandleProposal(c, proposal) ==
    /\ cpc[c] = "idle"
    /\ LET expected == SelectLeader(stakes, proposal.slot) IN expected \in {None} \cup {Some(v) : v \in Validators}
    /\ IF HasFinalizedSlot(finalized, proposal.slot)
          \/ proposal.block_hash \in DOMAIN pending_proposals
       THEN UNCHANGED <<pending_proposals, cpc, cvote>>
       ELSE /\ pending_proposals' =
                   InsertPendingProposal(pending_proposals, proposal.block_hash, proposal)
            /\ cvote' = [cvote EXCEPT ![c] =
                   Some([validator |-> node_id, slot |-> proposal.slot,
                         block_hash |-> proposal.block_hash, signature |-> <<>>])]
            /\ cpc' = [cpc EXCEPT ![c] = "vote"]
    /\ UNCHANGED <<current_slot, total_stake, votes, finalized, stakes, pos_total,
                   poh, tower>>

\* ConsensusEngine::handle_vote, first critical section: record_vote and
\* try_finalize under the state lock; the lock is dropped before finalizing.
VoteRecord(c, vote) ==
    LET r == RecordVote(votes, vote) IN
    /\ votes' = r.votes
    /\ IF r.ret /\ TryFinalize(r.votes, total_stake, vote.block_hash)
       THEN /\ cpc' = [cpc EXCEPT ![c] = "finalize"]
            /\ cvote' = [cvote EXCEPT ![c] = Some(vote)]
       ELSE /\ cpc' = [cpc EXCEPT ![c] = "idle"]
            /\ cvote' = [cvote EXCEPT ![c] = None]
    /\ UNCHANGED <<current_slot, total_stake, pending_proposals, finalized, stakes,
                   pos_total, poh, tower>>

\* handle_vote called with a vote from the network.
HandleVote(c, vote) ==
    /\ cpc[c] = "idle"
    /\ VoteRecord(c, vote)

\* handle_vote called by handle_proposal with the local vote.
HandleLocalVote(c) ==
    /\ cpc[c] = "vote"
    /\ VoteRecord(c, Unwrap(cvote[c]))

\* handle_vote after the threshold was met: tower.record_vote under the
\* tower lock, then finalize_block under the state lock taken again.
VoteFinalize(c) ==
    /\ cpc[c] = "finalize"
    /\ LET vote == Unwrap(cvote[c])
           f == FinalizeBlock(pending_proposals, finalized, vote.block_hash)
       IN /\ tower' = TowerRecordVote(tower, vote)
          /\ pending_proposals' = f.pending
          /\ finalized' = f.finalized
    /\ cpc' = [cpc EXCEPT ![c] = "idle"]
    /\ cvote' = [cvote EXCEPT ![c] = None]
    /\ UNCHANGED <<current_slot, total_stake, votes, stakes, pos_total, poh>>

\* An engine that is constructed and never used (the other specifications).
ConsIdle == ConsNew

(***************************************************************************)
(*                       PoH driven directly                               *)
(***************************************************************************)

MaxPohCalls == 3      \* generate is called while poh.counter < MaxPohCalls
MaxIterations == 3    \* iterations are drawn from 0..MaxIterations

\* PoH::new
PohNew == poh = [seed |-> 0, counter |-> 0]

\* A call of generate(iterations).
PohGenerateCall(iterations) ==
    /\ poh.counter < MaxPohCalls
    /\ LET r == PohGenerate(poh, iterations) IN
       /\ poh' = r.poh
       /\ pohRet' = [op |-> "generate", seed |-> poh.seed, counter |-> poh.counter,
                     iterations |-> iterations, out |-> r.out]
    /\ UNCHANGED <<current_slot, total_stake, pending_proposals, votes, finalized, stakes,
                   pos_total, tower, cpc, cvote>>

\* A call of PoH::verify(seed, iterations, expected_hex).
PohVerifyCall(seed, iterations, expected_hex) ==
    /\ pohRet' = [op |-> "verify", seed |-> seed, iterations |-> iterations,
                  expected_hex |-> expected_hex,
                  ok |-> PohVerify(seed, iterations, expected_hex)]
    /\ UNCHANGED consVars

(***************************************************************************)
(*                  ProofOfStake driven directly                           *)
(***************************************************************************)

\* The registry's validators and the stakes they register with: none,
\* small ones and the largest u64.
PosValidators == {"n1", "n2", "n3"}
PosStakes == {0, 1, 2, U64Max}

\* The seeds select_leader_with_seed is asked with (PoH digests).
Seeds == 0..(HashSpace - 1)

\* ProofOfStake::new
PosNew ==
    /\ stakes = [v \in PosValidators |-> None]
    /\ pos_total = 0

\* pos.register(validator, stake)
PosRegisterCall(v, stake) ==
    LET r == PosRegister(stakes, pos_total, v, stake) IN
    /\ stakes' = r.stakes
    /\ pos_total' = r.total
    /\ UNCHANGED <<current_slot, total_stake, pending_proposals, votes, finalized,
                   poh, tower, cpc, cvote>>

\* The registry that a fresh ProofOfStake reaches by registering the given
\* validators once each with their stakes of sk, in the order of their ids.
RECURSIVE RegisterAll(_, _, _)
RegisterAll(sk, vs, reg) ==
    IF vs = {} THEN reg
    ELSE LET v == CHOOSE x \in vs : \A y \in vs : ValRank(x) <= ValRank(y)
         IN RegisterAll(sk, vs \ {v}, PosRegister(reg.stakes, reg.total, v, Unwrap(sk[v])))
RegisteredOnce(sk) ==
    RegisterAll(sk, {v \in DOMAIN sk : sk[v] # None},
                [stakes |-> [v \in DOMAIN sk |-> None], total |-> 0])

(***************************************************************************)
(*       ConsensusState driven directly, as its unit test drives it        *)
(***************************************************************************)

MaxFinalized == 2     \* finalize_block is called while finalized is shorter

\* The values a caller stores in the public field total_stake: small ones,
\* the first whose double leaves the u64 range, and the largest.
StakeTotals == {0, 1, 2, 3, (U64Max \div 2) + 1, U64Max}

StValidators == {"a", "b", "c"}
StProposals == [proposer : {"alice"}, slot : Slots, block_hash : Hashes, poh_hash : {Some(0)}]
StVotes == [validator : StValidators, slot : {1}, block_hash : Hashes, signature : {<<>>}]

engineVars == <<stakes, pos_total, poh, tower, cpc, cvote>>

\* st.total_stake = t
StSetTotalStake(t) ==
    /\ total_stake' = t
    /\ UNCHANGED <<current_slot, pending_proposals, votes, finalized, engineVars>>

\* st.insert_pending_proposal(hash, proposal)
StInsertPendingProposal(proposal) ==
    /\ pending_proposals' =
           InsertPendingProposal(pending_proposals, proposal.block_hash, proposal)
    /\ UNCHANGED <<current_slot, total_stake, votes, finalized, engineVars>>

\* st.record_vote(&vote)
StRecordVote(vote) ==
    /\ votes' = RecordVote(votes, vote).votes
    /\ UNCHANGED <<current_slot, total_stake, pending_proposals, finalized, engineVars>>

\* st.finalize_block(&hash)
StFinalizeBlock(block_hash) ==
    /\ LET f == FinalizeBlock(pending_proposals, finalized, block_hash)
       IN /\ pending_proposals' = f.pending
          /\ finalized' = f.finalized
    /\ UNCHANGED <<current_slot, total_stake, votes, engineVars>>

(***************************************************************************)
(*        Wire messages, handshake (network/message.rs, handshake.rs)      *)
(***************************************************************************)

\* HandshakeMsg (features left out): node_id is the hex of a public key or
\* a string that is no hex at all; signature and nonce are numbers.
NodeIds == {"aa", "zz"}
KeyOf(id) == IF id = "aa" THEN 5 ELSE IF id = "zz" THEN 6 ELSE 0
HexDecode(id) == IF id = "aa" THEN Some(KeyOf(id)) ELSE None

\* The ed25519 signature of id || protocol_version || nonce under the key
\* whose public half is pk (a fixed function of the four).
SignatureBy(pk, id, protocol_version, nonce) ==
    ((pk * 31 + KeyOf(id) * 7 + protocol_version * 3 + nonce) % 97) + 1

HandshakeMsgs ==
    [node_id : NodeIds, protocol_version : {1}, nonce : {7},
     signature : {SignatureBy(5, "aa", 1, 7), 1}]
NoHandshake == [node_id |-> "", protocol_version |-> 0, nonce |-> 0, signature |-> 0]

\* handshake::verify_handshake: TRUE for Ok(()), FALSE for an Err.
VerifyHandshake(hs) ==
    IF HexDecode(hs.node_id) = None THEN FALSE
    ELSE hs.signature
            = SignatureBy(Unwrap(HexDecode(hs.node_id)), hs.node_id, hs.protocol_version, hs.nonce)

\* WireMessage
Handshake(hs) == [kind |-> "Handshake", hs |-> hs, data |-> 0]
Payload(data) == [kind |-> "Payload", hs |-> NoHandshake, data |-> data]
Ping == [kind |-> "Ping", hs |-> NoHandshake, data |-> 0]
Pong == [kind |-> "Pong", hs |-> NoHandshake, data |-> 0]
Payloads == {Payload(1), Payload(2)}
WireMessages == {Handshake(hs) : hs \in HandshakeMsgs} \cup Payloads \cup {Ping, Pong}

\* bincode::serialize of a WireMessage: the variant index, then the fields.
Serialize(msg) ==
    IF msg.kind = "Handshake"
    THEN <<0, KeyOf(msg.hs.node_id), msg.hs.protocol_version, msg.hs.signature, msg.hs.nonce>>
    ELSE IF msg.kind = "Payload" THEN <<1, msg.data>>
    ELSE IF msg.kind = "Ping" THEN <<2>>
    ELSE <<3>>

\* bincode::deserialize::<WireMessage>: None for bytes that encode no message.
Deserialize(bytes) ==
    IF \E msg \in WireMessages : Serialize(msg) = bytes
    THEN Some(CHOOSE msg \in WireMessages : Serialize(msg) = bytes)
    ELSE None

\* A frame whose bytes encode no WireMessage.
Garbage == <<9>>

(***************************************************************************)
(*                  Connection (network/connection.rs)                     *)
(***************************************************************************)

\* Bounds of the connection model.
MaxSent == 2       \* Connection::send accepts at most MaxSent messages
MaxFrames == 2     \* the peer sends at most MaxFrames frames
OUT_CAP == 2       \* capacity of the outbound queue (1024 in the source)

peer_addr == "p1"

\* No connection has been spawned.
ConnNone ==
    /\ conn = "none" /\ out_rx = <<>> /\ accepted = <<>> /\ wire = <<>>
    /\ stream = "open" /\ arrived = <<>> /\ unread = <<>> /\ inbound = <<>>
    /\ reader = "none" /\ writer = "none"

\* Connection::spawn has returned: both loops run, the caller holds the value.
ConnSpawned ==
    /\ conn = "held" /\ out_rx = <<>> /\ accepted = <<>> /\ wire = <<>>
    /\ stream = "open" /\ arrived = <<>> /\ unread = <<>> /\ inbound = <<>>
    /\ reader = "running" /\ writer = "running"

\* Connection::spawn on an accepted or connected stream.
ConnSpawn ==
    /\ conn = "none"
    /\ conn' = "held" /\ reader' = "running" /\ writer' = "running"
    /\ UNCHANGED <<out_rx, accepted, wire, stream, arrived, unread, inbound>>

\* The one-shot receiver both loops select on is ready once close() has sent
\* on it or the Connection (and with it the sender) has been dropped.
ShutdownReady == conn \in {"closed", "dropped"}

\* Connection::send(msg) returning Ok: the outbound queue takes the message
\* (it waits while the queue is full and fails once the writer is gone).
ConnSend(msg) ==
    /\ conn = "held" /\ writer = "running"
    /\ Len(out_rx) < OUT_CAP /\ Len(accepted) < MaxSent
    /\ out_rx' = Append(out_rx, msg)
    /\ accepted' = Append(accepted, msg)
    /\ UNCHANGED <<conn, wire, stream, arrived, unread, inbound, reader, writer>>

\* Connection::close
ConnClose ==
    /\ conn = "held"
    /\ conn' = "closed"
    /\ UNCHANGED <<out_rx, accepted, wire, stream, arrived, unread, inbound, reader, writer>>

\* The Connection value goes out of scope.
ConnDrop ==
    /\ conn = "held"
    /\ conn' = "dropped"
    /\ UNCHANGED <<out_rx, accepted, wire, stream, arrived, unread, inbound, reader, writer>>

\* mpsc::Receiver::recv that hands out the newest queued message.
RecvNewest(q) == [msg |-> q[Len(q)], rest |-> SubSeq(q, 1, Len(q) - 1)]

\* mpsc::Receiver::recv on a non-empty queue
Recv(q) == [msg |-> Head(q), rest |-> Tail(q)]

\* One turn of the write loop; sent tells whether writer.send succeeds: it
\* does on an open socket, fails on a broken one, and may do either once
\* the peer has closed its end.
WriterStep(sent) ==
    /\ writer = "running"
    /\ IF ShutdownReady
       THEN /\ writer' = "exited"
            /\ UNCHANGED <<out_rx, wire>>
       ELSE /\ out_rx # <<>>
            /\ (stream = "open" => sent) /\ (stream = "broken" => ~sent)
            /\ LET r == Recv(out_rx) IN
               /\ out_rx' = r.rest
               /\ IF sent
                  THEN wire' = Append(wire, Serialize(r.msg)) /\ writer' = writer
                  ELSE wire' = wire /\ writer' = "exited"
    /\ UNCHANGED <<conn, accepted, stream, arrived, unread, inbound, reader>>

\* One turn of the read loop: reader.next() yields an error on a broken
\* socket, else the next frame, else None once the peer has closed.
ReaderStep ==
    /\ reader = "running"
    /\ IF ShutdownReady
       THEN reader' = "exited" /\ UNCHANGED <<unread, inbound>>
       ELSE IF stream = "broken"
       THEN reader' = "exited" /\ UNCHANGED <<unread, inbound>>
       ELSE IF unread # <<>>
       THEN /\ unread' = Tail(unread)
            /\ inbound' = IF Deserialize(Head(unread)) # None
                          THEN Append(inbound, <<peer_addr, Unwrap(Deserialize(Head(unread)))>>)
                          ELSE inbound
            /\ reader' = reader
       ELSE /\ stream = "closed"
            /\ reader' = "exited" /\ UNCHANGED <<unread, inbound>>
    /\ UNCHANGED <<conn, out_rx, accepted, wire, stream, arrived, writer>>

\* The peer writes a frame.
PeerSend(frame) ==
    /\ conn # "none" /\ stream = "open" /\ Len(arrived) < MaxFrames
    /\ arrived' = Append(arrived, frame)
    /\ unread' = Append(unread, frame)
    /\ UNCHANGED <<conn, out_rx, accepted, wire, stream, inbound, reader, writer>>

\* The peer closes its end.
PeerClose ==
    /\ conn # "none" /\ stream = "open"
    /\ stream' = "closed"
    /\ UNCHANGED <<conn, out_rx, accepted, wire, arrived, unread, inbound, reader, writer>>

\* The socket breaks: reads and writes on it fail from now on.
StreamBreak ==
    /\ conn # "none" /\ stream # "broken"
    /\ stream' = "broken"
    /\ UNCHANGED <<conn, out_rx, accepted, wire, arrived, unread, inbound, reader, writer>>

(***************************************************************************)
(*          PeerStore and Gossiper (network/peerstore.rs, gossip.rs)       *)
(***************************************************************************)

\* Bounds of the gossip model.
MaxDedupCap == 2      \* dedup_capacity is drawn from 1..MaxDedupCap
MaxFanout == 2        \* fanout is drawn from 0..MaxFanout
MaxBroadcasts == 4    \* broadcast is called at most MaxBroadcasts times

\* The peers that come and go, and the payloads handed to broadcast.
PeerIds == {"p1", "p2"}
GossipPayloads == {Payload(1), Payload(2), Ping}

\* PeerStore::new
PeerStoreNew == peerstore = EmptyMap

\* PeerStore::add_peer: the map after the call.
AddPeer(ps, id, addr) == MapPut(ps, id, addr)

\* PeerStore::remove_peer
RemovePeer(ps, id) == MapRemove(ps, id)

\* PeerStore::list_peers: the entries, in whatever order the HashMap yields.
ListPeers(ps) == DOMAIN ps

\* peerstore.add_peer(id, addr) / peerstore.remove_peer(id) by some other task
PeerStoreAdd(id) ==
    /\ peerstore' = AddPeer(peerstore, id, id)
    /\ UNCHANGED <<dedup, dedup_capacity, fanout, gpc, gpayload, contacted, glog>>
PeerStoreRemove(id) ==
    /\ id \in DOMAIN peerstore
    /\ peerstore' = RemovePeer(peerstore, id)
    /\ UNCHANGED <<dedup, dedup_capacity, fanout, gpc, gpayload, contacted, glog>>

\* Gossiper::new(peerstore, dedup_capacity, fanout); nothing broadcast yet.
GossiperNew(cap, fo) ==
    /\ dedup = <<>> /\ dedup_capacity = cap /\ fanout = fo
    /\ gpc = [c \in Callers |-> "idle"]
    /\ gpayload = [c \in Callers |-> Ping]
    /\ contacted = [c \in Callers |-> {}]
    /\ glog = <<>>

\* The test of broadcast that takes every payload for a new one.
DedupContainsNever(d, bin) == FALSE

\* dedup.contains(&bin)
DedupContains(d, bin) == SeqHas(d, bin)

\* Gossiper::broadcast up to the release of the dedup lock: a payload seen
\* before ends the call, a new one is put into the LRU.
BroadcastDedup(c, payload) ==
    LET bin == Serialize(payload) IN
    /\ gpc[c] = "idle" /\ Len(glog) < MaxBroadcasts
    /\ contacted' = [contacted EXCEPT ![c] = {}]
    /\ IF DedupContains(dedup, bin)
       THEN /\ glog' = Append(glog, [payload |-> payload, admitted |-> FALSE])
            /\ UNCHANGED <<dedup, gpc, gpayload>>
       ELSE /\ dedup' = LruPut(dedup, dedup_capacity, bin)
            /\ gpc' = [gpc EXCEPT ![c] = "forward"]
            /\ gpayload' = [gpayload EXCEPT ![c] = payload]
            /\ glog' = Append(glog, [payload |-> payload, admitted |-> TRUE])
    /\ UNCHANGED <<peerstore, dedup_capacity, fanout>>

\* The rest of broadcast: list the peers and spawn a send task for the
\* first `fanout` of them (first is the set of those the iteration yields).
BroadcastForward(c, first) ==
    LET peers == ListPeers(peerstore)
        n == Cardinality(peers)
    IN
    /\ gpc[c] = "forward"
    /\ first \subseteq peers
    /\ Cardinality(first) = IF fanout < n THEN fanout ELSE n
    /\ contacted' = [contacted EXCEPT ![c] = first]
    /\ gpc' = [gpc EXCEPT ![c] = "idle"]
    /\ UNCHANGED <<peerstore, dedup, dedup_capacity, fanout, gpayload, glog>>

\* No gossip is under way.
GossipIdle == PeerStoreNew /\ GossiperNew(1, 0)

(***************************************************************************)
(*                ConnectionManager (network/manager.rs)                   *)
(***************************************************************************)

\* The retry counter of the model stops counting at MaxRetries; by then the
\* backoff has long reached its cap.
MaxRetries == 7

\* ConnectionManager::new: nothing accepted, no connect_peer task.
ManagerNew == lpc = "listening" /\ dpc = "none" /\ backoff = 0 /\ retries = 0

\* start_listener: listener.accept() hands over a stream and the spawned
\* task calls Connection::spawn on it.
ListenerAccept ==
    /\ lpc = "listening"
    /\ ConnSpawn
    /\ lpc' = "spawned"
    /\ UNCHANGED <<dpc, backoff, retries, gossVars>>

\* start_listener, Ok(conn) arm: the peer is recorded under its address and
\* the arm ends, dropping conn.
ListenerRecord ==
    /\ lpc = "spawned"
    /\ peerstore' = AddPeer(peerstore, peer_addr, peer_addr)
    /\ conn' = "dropped"
    /\ lpc' = "done"
    /\ UNCHANGED <<out_rx, accepted, wire, stream, arrived, unread, inbound, reader, writer,
                   dedup, dedup_capacity, fanout, gpc, gpayload, contacted, glog,
                   dpc, backoff, retries>>

\* connect_peer has spawned its task: backoff = 500, about to connect.
DialStarted == lpc = "listening" /\ dpc = "connect" /\ backoff = 500 /\ retries = 0

\* backoff = (backoff * 2).min(30_000)
NextBackoff(b) == IF b * 2 < 30000 THEN b * 2 ELSE 30000

\* connect_peer: transport::connect(&addr) and, on a stream, Connection::spawn;
\* connected tells whether both succeed.
DialConnect(connected) ==
    /\ dpc = "connect"
    /\ IF connected
       THEN ConnSpawn /\ dpc' = "spawned"
       ELSE dpc' = "sleep" /\ UNCHANGED connVars
    /\ UNCHANGED <<lpc, backoff, retries, gossVars>>

\* connect_peer, Ok(conn) arm: record the peer and break out of the loop;
\* the task ends and conn is dropped.
DialRecord ==
    /\ dpc = "spawned"
    /\ peerstore' = AddPeer(peerstore, peer_addr, peer_addr)
    /\ conn' = "dropped"
    /\ dpc' = "done"
    /\ UNCHANGED <<out_rx, accepted, wire, stream, arrived, unread, inbound, reader, writer,
                   dedup, dedup_capacity, fanout, gpc, gpayload, contacted, glog,
                   lpc, backoff, retries>>

\* connect_peer: sleep(backoff) is over; the backoff doubles up to its cap
\* and the loop turns.
DialWake ==
    /\ dpc = "sleep"
    /\ backoff' = NextBackoff(backoff)
    /\ retries' = IF retries < MaxRetries THEN retries + 1 ELSE retries
    /\ dpc' = "connect"
    /\ UNCHANGED <<lpc, connVars, gossVars>>

(***************************************************************************)
(*        Node::start and ServiceHandle (node/node.rs, service_handle.rs)  *)
(***************************************************************************)

MaxInbound == 2       \* the inbound channel holds at most MaxInbound messages

\* ForwardConfig.batch_size as Node::start sets it
batch_size == 64

\* The handles in the order Node::start attaches them.
join_handles == <<"listener", "dispatcher", "forwarder", "rpc">>
TaskNames == {join_handles[i] : i \in 1..Len(join_handles)}

\* The messages the dispatcher routes: a gossiped transaction, or one that
\* falls to a `_ => {}` arm.
NodeTxs == {TxA, TxB}
NodeMessages == {[kind |-> "Transaction", tx |-> tx] : tx \in NodeTxs} \cup {[kind |-> "Other"]}

\* ServiceHandle::new and the four tasks Node::start spawns and attaches.
NodeStarted ==
    /\ shutdown_tx = FALSE
    /\ inbound_rx = <<>>
    /\ task = [t \in TaskNames |-> IF t \in {"listener", "rpc"} THEN "start" ELSE "check"]
    /\ svc = 0

\* No node is running.
NodeIdle ==
    /\ shutdown_tx = FALSE
    /\ inbound_rx = <<>>
    /\ task = [t \in TaskNames |-> "none"]
    /\ svc = 0

\* Listener task: cm.start_listener(&bind); bound tells whether it binds.
ListenerStart(bound) ==
    /\ task["listener"] = "start"
    /\ task' = [task EXCEPT !["listener"] = IF bound THEN "check" ELSE "done"]
    /\ UNCHANGED <<shutdown_tx, inbound_rx, svc>>

\* Listener task: one turn of the loop that watches the shutdown value.
ListenerWatch ==
    /\ task["listener"] = "check"
    /\ task' = [task EXCEPT !["listener"] = IF shutdown_tx THEN "done" ELSE "sleep"]
    /\ UNCHANGED <<shutdown_tx, inbound_rx, svc>>

\* Listener task: sleep(200 ms) is over.
ListenerWake ==
    /\ task["listener"] = "sleep"
    /\ task' = [task EXCEPT !["listener"] = "check"]
    /\ UNCHANGED <<shutdown_tx, inbound_rx, svc>>

\* Inbound dispatcher: the condition of `while !*shutdown_rx.borrow()`.
DispatcherCheck ==
    /\ task["dispatcher"] = "check"
    /\ task' = [task EXCEPT !["dispatcher"] = IF shutdown_tx THEN "done" ELSE "recv"]
    /\ UNCHANGED <<shutdown_tx, inbound_rx, svc>>

\* Inbound dispatcher: inbound_rx.recv().await yields a message, which is
\* routed; a transaction goes through TxIngestor::ingest, where valid tells
\* whether the validator lets it into the pool. The senders of the channel
\* live in the ConnectionManager, so recv never yields None.
DispatcherRecv(valid) ==
    /\ task["dispatcher"] = "recv"
    /\ inbound_rx # <<>>
    /\ LET msg == Head(inbound_rx) IN
       IF msg.kind = "Transaction" /\ valid
       THEN Insert(msg.tx)
       ELSE UNCHANGED poolVars
    /\ inbound_rx' = Tail(inbound_rx)
    /\ task' = [task EXCEPT !["dispatcher"] = "check"]
    /\ UNCHANGED <<shutdown_tx, svc>>

\* TxForwarder::run: the shutdown check at the top of the loop.
ForwarderCheck ==
    /\ task["forwarder"] = "check"
    /\ task' = [task EXCEPT !["forwarder"] = IF shutdown_tx THEN "done" ELSE "pop"]
    /\ UNCHANGED <<shutdown_tx, inbound_rx, svc>>

\* TxForwarder::run: pool.pop_priority(batch_size); an empty batch goes to
\* sleep(poll_interval_ms), another one is sent.
ForwarderPop ==
    /\ task["forwarder"] = "pop"
    /\ PopPriority(batch_size)
    /\ task' = [task EXCEPT !["forwarder"] =
                  IF poolRet'.selected = <<>> THEN "sleep" ELSE "send"]
    /\ UNCHANGED <<shutdown_tx, inbound_rx, svc>>

\* TxForwarder::run: the batch is broadcast (ConnectionManager::broadcast
\* walks a connection map that nothing fills), then sleep(1 ms).
ForwarderSend ==
    /\ task["forwarder"] = "send"
    /\ task' = [task EXCEPT !["forwarder"] = "sleep"]
    /\ UNCHANGED <<shutdown_tx, inbound_rx, svc>>

\* TxForwarder::run: the sleep is over and the loop turns.
ForwarderWake ==
    /\ task["forwarder"] = "sleep"
    /\ task' = [task EXCEPT !["forwarder"] = "check"]
    /\ UNCHANGED <<shutdown_tx, inbound_rx, svc>>

\* RPC task: server.start(); bound tells whether the address binds. A bound
\* server serves until the process ends.
RpcStart(bound) ==
    /\ task["rpc"] = "start"
    /\ task' = [task EXCEPT !["rpc"] = IF bound THEN "serving" ELSE "done"]
    /\ UNCHANGED <<shutdown_tx, inbound_rx, svc>>

\* RpcDeps::submit_transaction on the serving RPC task.
RpcSubmit(tx, valid) ==
    /\ task["rpc"] = "serving"
    /\ IF valid THEN Insert(tx) ELSE UNCHANGED poolVars
    /\ UNCHANGED nodeVars

\* A connection's reader sends a message on the inbound channel.
InboundArrive(msg) ==
    /\ Len(inbound_rx) < MaxInbound
    /\ inbound_rx' = Append(inbound_rx, msg)
    /\ UNCHANGED <<shutdown_tx, task, svc>>

\* ServiceHandle::shutdown: shutdown_tx.send(true), then the first handle.
ShutdownSignal ==
    /\ svc = 0
    /\ shutdown_tx' = TRUE
    /\ svc' = 1
    /\ UNCHANGED <<inbound_rx, task>>

\* ServiceHandle::shutdown: `h.await` returns for the handle at hand; after
\* the last one the call returns.
ShutdownJoin ==
    /\ svc \in 1..Len(join_handles)
    /\ task[join_handles[svc]] = "done"
    /\ svc' = svc + 1
    /\ UNCHANGED <<shutdown_tx, inbound_rx, task>>

\* ServiceHandle::shutdown has returned.
ShutdownComplete == svc = Len(join_handles) + 1


\* The task Gossiper::broadcast spawns for a selected peer, with its
\* payload_clone: it is about to connect.
SendTaskSpawned(payload) == stask = "connect" /\ spayload = Some(payload)

\* Send task: TcpStream::connect(&addr) and Connection::spawn; connected
\* tells whether both succeed.
SendTaskConnect(connected) ==
    /\ stask = "connect"
    /\ IF connected
       THEN ConnSpawn /\ stask' = "send"
       ELSE stask' = "done" /\ UNCHANGED connVars
    /\ UNCHANGED spayload

\* Send task: `let _ = conn.send(payload_clone).await`; the send fails, and
\* is ignored, when the writer is gone.
SendTaskSend ==
    /\ stask = "send"
    /\ IF writer = "running" THEN ConnSend(Unwrap(spayload)) ELSE UNCHANGED connVars
    /\ stask' = "close"
    /\ UNCHANGED spayload

\* Send task: conn.close(), after which the task ends.
SendTaskClose ==
    /\ stask = "close"
    /\ ConnClose
    /\ stask' = "done"
    /\ UNCHANGED spayload

\* No call has been made on the parts that are driven on their own.
NoCall == [op |-> "none", pc |-> "done", key |-> "-", lamports |-> 0, succeeds |-> FALSE,
           loaded |-> None, todo |-> {}]
PohIdle == pohRet = [op |-> "new"]
SendIdle == stask = "none" /\ spayload = None
CcIdle ==
    /\ ccall = [c \in Callers |-> NoCall]
    /\ last_write = [k \in Accounts |-> None]
    /\ ncalls = 0
NoInsert == [pc |-> "idle", tx |-> None, meta |-> None, res |-> None]
IcIdle == icall = [c \in Callers |-> NoInsert]
PsIdle == inner = EmptyMap /\ instant = 0
ExtIdle == PohIdle /\ SendIdle /\ CcIdle /\ IcIdle /\ PsIdle

\* No part of the network layer or of the node is in use.
NetIdle == ConnNone /\ GossipIdle /\ ManagerNew /\ NodeIdle /\ ExtIdle


(***************************************************************************)
(*                           Specifications                                *)
(***************************************************************************)

PoolInit == PoolNew /\ LocksNew /\ shard_count = 1 /\ ExecIdle /\ ConsIdle /\ NetIdle
PoolNext ==
    \/ \E tx \in TxUniverse :
           BagCardinality(heap) < MaxHeap /\ Insert(tx) /\ UNCHANGED <<netVars, lockVars, execVars, consVars>>
    \/ \E limit \in 0..MaxLimit : PopPriority(limit) /\ UNCHANGED <<netVars, lockVars, execVars, consVars>>
    \/ \E tx \in TxUniverse : Remove(TxIdOf(tx)) /\ UNCHANGED <<netVars, lockVars, execVars, consVars>>
    \/ GcTtl /\ UNCHANGED <<netVars, lockVars, execVars, consVars>>
    \/ Tick /\ UNCHANGED <<netVars, lockVars, execVars, consVars>>
SpecPool == PoolInit /\ [][PoolNext]_vars

(***************************************************************************)
(*              TxPool::insert called by concurrent callers                *)
(***************************************************************************)

\* Each caller holds the pool behind an Arc and calls insert once.  A step is
\* one DashMap operation or one section under the heap or the LRU mutex.

\* insert: `self.entries.contains_key(&txid)`
InsContains(c, tx) ==
    /\ icall[c].pc = "idle"
    /\ icall' = [icall EXCEPT ![c] =
                    IF TxIdOf(tx) \in DOMAIN entries
                    THEN [NoInsert EXCEPT !.pc = "done", !.tx = Some(tx), !.res = Some("Duplicate")]
                    ELSE [NoInsert EXCEPT !.pc = "len", !.tx = Some(tx)]]
    /\ UNCHANGED poolVars

\* insert: `self.entries.len() >= self.max_size`
InsLen(c) ==
    /\ icall[c].pc = "len"
    /\ icall' = [icall EXCEPT ![c].pc =
                    IF Cardinality(DOMAIN entries) >= max_size THEN "evict" ELSE "put"]
    /\ UNCHANGED poolVars

\* insert: `self.evict_low_priority().await`
InsEvict(c) ==
    /\ icall[c].pc = "evict"
    /\ LET ev == EvictLowPriority(entries, lru) IN
       /\ entries' = ev.entries
       /\ lru' = ev.lru
       /\ icall' = [icall EXCEPT ![c] =
                       IF ev.evicted THEN [@ EXCEPT !.pc = "put"]
                       ELSE [@ EXCEPT !.pc = "done", !.res = Some("PoolFull")]]
    /\ UNCHANGED <<heap, max_size, lru_capacity, now, poolRet>>

\* insert: the priority, `Instant::now()`, the meta, `self.entries.insert(..)`
InsPut(c) ==
    /\ icall[c].pc = "put"
    /\ LET tx == Unwrap(icall[c].tx)
           meta == [id |-> TxIdOf(tx), inserted_at |-> now, priority |-> ComputePriority(tx),
                    last_seen |-> now, ttl |-> ttl]
       IN /\ entries' = MapPut(entries, TxIdOf(tx), [tx |-> tx, meta |-> meta])
          /\ icall' = [icall EXCEPT ![c].pc = "heap", ![c].meta = Some(meta)]
    /\ UNCHANGED <<heap, lru, max_size, lru_capacity, now, poolRet>>

\* insert: `heap.push(HeapItem { .. })` under the heap mutex
InsHeap(c) ==
    /\ icall[c].pc = "heap"
    /\ LET meta == Unwrap(icall[c].meta) IN
       heap' = BagAddOne(heap, [id |-> meta.id, priority |-> meta.priority,
                                inserted_at |-> meta.inserted_at])
    /\ icall' = [icall EXCEPT ![c].pc = "lru"]
    /\ UNCHANGED <<entries, lru, max_size, lru_capacity, now, poolRet>>

\* insert: `lru.put(txid.clone(), ())` under the LRU mutex, and `Ok(meta)`
InsLru(c) ==
    /\ icall[c].pc = "lru"
    /\ lru' = LruPut(lru, lru_capacity, Unwrap(icall[c].meta).id)
    /\ icall' = [icall EXCEPT ![c].pc = "done", ![c].res = Some("Ok")]
    /\ UNCHANGED <<entries, heap, max_size, lru_capacity, now, poolRet>>

icOthers == <<connVars, gossVars, mgrVars, nodeVars, pohVars, sendVars, ccVars, psVars,
              lockVars, execVars, consVars>>

\* Nothing but insert calls on a new pool.
InsertConcInit == PoolInit
InsertConcNext ==
    \/ \E c \in Callers, tx \in TxUniverse : InsContains(c, tx) /\ UNCHANGED icOthers
    \/ \E c \in Callers : InsLen(c) /\ UNCHANGED icOthers
    \/ \E c \in Callers : InsEvict(c) /\ UNCHANGED icOthers
    \/ \E c \in Callers : InsPut(c) /\ UNCHANGED icOthers
    \/ \E c \in Callers : InsHeap(c) /\ UNCHANGED icOthers
    \/ \E c \in Callers : InsLru(c) /\ UNCHANGED icOthers
SpecInsertConc == InsertConcInit /\ [][InsertConcNext]_vars

\* The insert calls next to remove, pop_priority and gc_ttl calls, each of
\* which runs to completion between two steps of the inserts.
PoolConcNext ==
    \/ \E c \in Callers, tx \in TxUniverse : InsContains(c, tx) /\ UNCHANGED icOthers
    \/ \E c \in Callers : InsLen(c) /\ UNCHANGED icOthers
    \/ \E c \in Callers : InsEvict(c) /\ UNCHANGED icOthers
    \/ \E c \in Callers : InsPut(c) /\ UNCHANGED icOthers
    \/ \E c \in Callers : InsHeap(c) /\ UNCHANGED icOthers
    \/ \E c \in Callers : InsLru(c) /\ UNCHANGED icOthers
    \/ \E limit \in 0..MaxLimit : PopPriority(limit) /\ UNCHANGED <<icVars, icOthers>>
    \/ \E tx \in TxUniverse : Remove(TxIdOf(tx)) /\ UNCHANGED <<icVars, icOthers>>
    \/ GcTtl /\ UNCHANGED <<icVars, icOthers>>
    \/ Tick /\ UNCHANGED <<icVars, icOthers>>
SpecPoolConc == InsertConcInit /\ [][PoolConcNext]_vars

LocksInit == PoolIdle /\ LocksNew /\ ExecIdle /\ ConsIdle /\ NetIdle
LocksNext ==
    \/ \E t \in Tasks : CallerAcquire(t) /\ UNCHANGED <<netVars, poolVars, execVars, consVars>>
    \/ \E t \in Tasks : ShardLock(t) /\ UNCHANGED <<netVars, poolVars, execVars, consVars>>
    \/ \E t \in Tasks : ShardLookup(t) /\ UNCHANGED <<netVars, poolVars, execVars, consVars>>
    \/ \E t \in Tasks : KeyLock(t) /\ UNCHANGED <<netVars, poolVars, execVars, consVars>>
    \/ \E t \in Tasks : CallerDrop(t) /\ UNCHANGED <<netVars, poolVars, execVars, consVars>>
SpecLocks == LocksInit /\ [][LocksNext]_vars

\* The runtime keeps polling every task that can make progress, and every
\* returned LockGuard is eventually dropped; nobody is obliged to call acquire.
LockTaskStep(t) ==
    (ShardLock(t) \/ ShardLookup(t) \/ KeyLock(t) \/ CallerDrop(t))
        /\ UNCHANGED <<netVars, poolVars, execVars, consVars>>
\* Callers that never repeat a key within one call, under that scheduling.
LocksDistinctNext ==
    \/ \E t \in Tasks : CallerAcquireDistinct(t) /\ UNCHANGED <<netVars, poolVars, execVars, consVars>>
    \/ \E t \in Tasks : ShardLock(t) /\ UNCHANGED <<netVars, poolVars, execVars, consVars>>
    \/ \E t \in Tasks : ShardLookup(t) /\ UNCHANGED <<netVars, poolVars, execVars, consVars>>
    \/ \E t \in Tasks : KeyLock(t) /\ UNCHANGED <<netVars, poolVars, execVars, consVars>>
    \/ \E t \in Tasks : CallerDrop(t) /\ UNCHANGED <<netVars, poolVars, execVars, consVars>>
SpecLocksFair ==
    LocksInit /\ [][LocksDistinctNext]_vars /\ \A t \in Tasks : WF_vars(LockTaskStep(t))

ExecInit == PoolIdle /\ LocksNew /\ shard_count = MaxShards /\ ExecNew /\ ConsIdle /\ NetIdle
ExecNext ==
    \/ \E t \in Tasks : TaskStart(t) /\ UNCHANGED <<netVars, poolVars, consVars>>
    \/ \E t \in Tasks : mainPc = "join" /\ ShardLock(t) /\ UNCHANGED <<netVars, poolVars, execVars, consVars>>
    \/ \E t \in Tasks : mainPc = "join" /\ ShardLookup(t) /\ UNCHANGED <<netVars, poolVars, execVars, consVars>>
    \/ \E t \in Tasks : mainPc = "join" /\ KeyLock(t) /\ UNCHANGED <<netVars, poolVars, execVars, consVars>>
    \/ \E t \in Tasks : ReadFrom(t) /\ UNCHANGED <<netVars, poolVars, consVars>>
    \/ \E t \in Tasks : ReadTo(t) /\ UNCHANGED <<netVars, poolVars, consVars>>
    \/ \E t \in Tasks : Apply(t) /\ UNCHANGED <<netVars, poolVars, consVars>>
    \/ \E t \in Tasks : InsertTo(t) /\ UNCHANGED <<netVars, poolVars, consVars>>
    \/ \E t \in Tasks : Release(t) /\ UNCHANGED <<netVars, poolVars, consVars>>
    \/ JoinAndFlush /\ UNCHANGED <<netVars, poolVars, consVars>>
SpecExec == ExecInit /\ [][ExecNext]_vars

\* The same executor on batches that hold zero-amount transfers.
ExecInitZero == PoolIdle /\ LocksNew /\ shard_count = MaxShards /\ ExecNewZero /\ ConsIdle /\ NetIdle
SpecExecZero == ExecInitZero /\ [][ExecNext]_vars

\* The engine's calls; propose_if_leader stops once the PoH counter of the
\* model is used up.
ConsInit == PoolIdle /\ LocksNew /\ shard_count = 1 /\ ExecIdle /\ ConsNew /\ NetIdle
ConsNext ==
    \/ \E v \in Validators, stake \in Stakes :
           RegisterValidator(v, stake) /\ UNCHANGED <<netVars, poolVars, lockVars, execVars>>
    \/ (poh.counter < MaxPoh /\ ProposeIfLeader)
           /\ UNCHANGED <<netVars, poolVars, lockVars, execVars>>
    \/ \E c \in Callers, p \in NetProposals :
           HandleProposal(c, p) /\ UNCHANGED <<netVars, poolVars, lockVars, execVars>>
    \/ \E c \in Callers, v \in NetVotes :
           HandleVote(c, v) /\ UNCHANGED <<netVars, poolVars, lockVars, execVars>>
    \/ \E c \in Callers : HandleLocalVote(c) /\ UNCHANGED <<netVars, poolVars, lockVars, execVars>>
    \/ \E c \in Callers : VoteFinalize(c) /\ UNCHANGED <<netVars, poolVars, lockVars, execVars>>
SpecCons == ConsInit /\ [][ConsNext]_vars

\* The calls on a ProofOfStake of its own.
PosInit ==
    /\ PoolIdle /\ LocksNew /\ shard_count = 1 /\ ExecIdle /\ NetIdle
    /\ PosNew
    /\ current_slot = 0 /\ total_stake = 0
    /\ pending_proposals = EmptyMap /\ votes = EmptyMap /\ finalized = <<>>
    /\ poh = [seed |-> 0, counter |-> 0]
    /\ tower = [v \in Validators |-> {}]
    /\ cpc = [c \in Callers |-> "idle"]
    /\ cvote = [c \in Callers |-> None]
PosNext ==
    \E v \in PosValidators, stake \in PosStakes :
       PosRegisterCall(v, stake) /\ UNCHANGED <<netVars, poolVars, lockVars, execVars>>
SpecPos == PosInit /\ [][PosNext]_vars

\* The calls on a PoH of its own: generate, and verify of any text against
\* any seed.
PohInit ==
    /\ PoolIdle /\ LocksNew /\ shard_count = 1 /\ ExecIdle /\ NetIdle
    /\ ConsNew /\ PohNew
PohNext ==
    \/ \E n \in 0..MaxIterations :
          PohGenerateCall(n)
             /\ UNCHANGED <<connVars, gossVars, mgrVars, nodeVars, sendVars, ccVars, icVars, psVars, poolVars, lockVars, execVars>>
    \/ \E seed \in 0..(HashSpace - 1), n \in 0..MaxIterations, hex \in 0..(HashSpace - 1) :
          PohVerifyCall(seed, n, hex)
             /\ UNCHANGED <<connVars, gossVars, mgrVars, nodeVars, sendVars, ccVars, icVars, psVars, poolVars, lockVars, execVars>>
SpecPoh == PohInit /\ [][PohNext]_vars


\* The calls on a ConsensusState of its own.
StateInit == ConsInit
StateNext ==
    \/ \E t \in StakeTotals : StSetTotalStake(t) /\ UNCHANGED <<netVars, poolVars, lockVars, execVars>>
    \/ \E p \in StProposals :
           StInsertPendingProposal(p) /\ UNCHANGED <<netVars, poolVars, lockVars, execVars>>
    \/ \E v \in StVotes : StRecordVote(v) /\ UNCHANGED <<netVars, poolVars, lockVars, execVars>>
    \/ \E h \in Hashes :
           (Len(finalized) < MaxFinalized /\ StFinalizeBlock(h))
              /\ UNCHANGED <<netVars, poolVars, lockVars, execVars>>
SpecState == StateInit /\ [][StateNext]_vars


\* One Connection on its own: its holder sends and closes, the peer sends
\* frames (decodable or not) and closes.
ConnFrames == {Serialize(msg) : msg \in Payloads} \cup {Garbage}
ConnInit ==
    /\ PoolIdle /\ LocksNew /\ shard_count = 1 /\ ExecIdle /\ ConsIdle
    /\ ConnSpawned /\ GossipIdle /\ ManagerNew /\ NodeIdle /\ ExtIdle
ConnNext ==
    \/ \E msg \in Payloads : ConnSend(msg) /\ UNCHANGED <<gossVars, mgrVars, nodeVars, extVars, poolVars, lockVars, execVars, consVars>>
    \/ ConnClose /\ UNCHANGED <<gossVars, mgrVars, nodeVars, extVars, poolVars, lockVars, execVars, consVars>>
    \/ ConnDrop /\ UNCHANGED <<gossVars, mgrVars, nodeVars, extVars, poolVars, lockVars, execVars, consVars>>
    \/ \E sent \in BOOLEAN : WriterStep(sent) /\ UNCHANGED <<gossVars, mgrVars, nodeVars, extVars, poolVars, lockVars, execVars, consVars>>
    \/ ReaderStep /\ UNCHANGED <<gossVars, mgrVars, nodeVars, extVars, poolVars, lockVars, execVars, consVars>>
    \/ \E frame \in ConnFrames : PeerSend(frame) /\ UNCHANGED <<gossVars, mgrVars, nodeVars, extVars, poolVars, lockVars, execVars, consVars>>
    \/ PeerClose /\ UNCHANGED <<gossVars, mgrVars, nodeVars, extVars, poolVars, lockVars, execVars, consVars>>
    \/ StreamBreak /\ UNCHANGED <<gossVars, mgrVars, nodeVars, extVars, poolVars, lockVars, execVars, consVars>>
SpecConn == ConnInit /\ [][ConnNext]_vars


\* One Gossiper: broadcast calls that interleave with one another and with
\* changes of the peer store.
GossipInit ==
    /\ PoolIdle /\ LocksNew /\ shard_count = 1 /\ ExecIdle /\ ConsIdle /\ ConnNone /\ ManagerNew /\ NodeIdle /\ ExtIdle
    /\ PeerStoreNew
    /\ \E cap \in 1..MaxDedupCap, fo \in 0..MaxFanout : GossiperNew(cap, fo)
GossipNext ==
    \/ \E c \in Callers, payload \in GossipPayloads :
          BroadcastDedup(c, payload) /\ UNCHANGED <<connVars, mgrVars, nodeVars, extVars, poolVars, lockVars, execVars, consVars>>
    \/ \E c \in Callers, first \in SUBSET PeerIds :
          BroadcastForward(c, first) /\ UNCHANGED <<connVars, mgrVars, nodeVars, extVars, poolVars, lockVars, execVars, consVars>>
    \/ \E id \in PeerIds :
          PeerStoreAdd(id) /\ UNCHANGED <<connVars, mgrVars, nodeVars, extVars, poolVars, lockVars, execVars, consVars>>
    \/ \E id \in PeerIds :
          PeerStoreRemove(id) /\ UNCHANGED <<connVars, mgrVars, nodeVars, extVars, poolVars, lockVars, execVars, consVars>>
SpecGossip == GossipInit /\ [][GossipNext]_vars


\* The listener with one stream accepted: the peer sends handshakes (signed
\* well or badly), payloads and undecodable frames.
ListenFrames ==
    {Serialize(Handshake(hs)) : hs \in HandshakeMsgs} \cup {Serialize(Payload(1)), Garbage}
ListenInit == PoolIdle /\ LocksNew /\ shard_count = 1 /\ ExecIdle /\ ConsIdle /\ NetIdle
ListenNext ==
    \/ ListenerAccept /\ UNCHANGED <<nodeVars, extVars, poolVars, lockVars, execVars, consVars>>
    \/ ListenerRecord /\ UNCHANGED <<nodeVars, extVars, poolVars, lockVars, execVars, consVars>>
    \/ \E sent \in BOOLEAN :
          WriterStep(sent) /\ UNCHANGED <<gossVars, mgrVars, nodeVars, extVars, poolVars, lockVars, execVars, consVars>>
    \/ ReaderStep /\ UNCHANGED <<gossVars, mgrVars, nodeVars, extVars, poolVars, lockVars, execVars, consVars>>
    \/ \E frame \in ListenFrames :
          PeerSend(frame) /\ UNCHANGED <<gossVars, mgrVars, nodeVars, extVars, poolVars, lockVars, execVars, consVars>>
    \/ PeerClose /\ UNCHANGED <<gossVars, mgrVars, nodeVars, extVars, poolVars, lockVars, execVars, consVars>>
    \/ StreamBreak /\ UNCHANGED <<gossVars, mgrVars, nodeVars, extVars, poolVars, lockVars, execVars, consVars>>
SpecListen == ListenInit /\ [][ListenNext]_vars

\* One connect_peer task and the connection it makes; every task that can
\* take a step eventually takes one.
DialInit ==
    /\ PoolIdle /\ LocksNew /\ shard_count = 1 /\ ExecIdle /\ ConsIdle
    /\ ConnNone /\ GossipIdle /\ DialStarted /\ NodeIdle /\ ExtIdle
DialTaskStep ==
    /\ \/ \E connected \in BOOLEAN : DialConnect(connected)
       \/ DialRecord
       \/ DialWake
    /\ UNCHANGED <<nodeVars, extVars, poolVars, lockVars, execVars, consVars>>
ReaderTaskStep ==
    /\ ReaderStep
    /\ UNCHANGED <<gossVars, mgrVars, nodeVars, extVars, poolVars, lockVars, execVars, consVars>>
WriterTaskStep ==
    /\ \E sent \in BOOLEAN : WriterStep(sent)
    /\ UNCHANGED <<gossVars, mgrVars, nodeVars, extVars, poolVars, lockVars, execVars, consVars>>
DialNext ==
    \/ \E connected \in BOOLEAN :
          DialConnect(connected) /\ UNCHANGED <<nodeVars, extVars, poolVars, lockVars, execVars, consVars>>
    \/ DialRecord /\ UNCHANGED <<nodeVars, extVars, poolVars, lockVars, execVars, consVars>>
    \/ DialWake /\ UNCHANGED <<nodeVars, extVars, poolVars, lockVars, execVars, consVars>>
    \/ \E sent \in BOOLEAN :
          WriterStep(sent) /\ UNCHANGED <<gossVars, mgrVars, nodeVars, extVars, poolVars, lockVars, execVars, consVars>>
    \/ ReaderStep /\ UNCHANGED <<gossVars, mgrVars, nodeVars, extVars, poolVars, lockVars, execVars, consVars>>
    \/ \E frame \in ConnFrames :
          PeerSend(frame) /\ UNCHANGED <<gossVars, mgrVars, nodeVars, extVars, poolVars, lockVars, execVars, consVars>>
    \/ PeerClose /\ UNCHANGED <<gossVars, mgrVars, nodeVars, extVars, poolVars, lockVars, execVars, consVars>>
    \/ StreamBreak /\ UNCHANGED <<gossVars, mgrVars, nodeVars, extVars, poolVars, lockVars, execVars, consVars>>
SpecDialFair ==
    /\ DialInit /\ [][DialNext]_vars
    /\ WF_vars(DialTaskStep) /\ WF_vars(ReaderTaskStep) /\ WF_vars(WriterTaskStep)


\* One send task of a broadcast and the connection it makes; the peer may
\* send frames and close, the socket may break.
GossipSendInit ==
    /\ PoolIdle /\ LocksNew /\ shard_count = 1 /\ ExecIdle /\ ConsIdle
    /\ ConnNone /\ GossipIdle /\ ManagerNew /\ NodeIdle
    /\ PohIdle /\ CcIdle /\ IcIdle /\ PsIdle
    /\ \E payload \in GossipPayloads : SendTaskSpawned(payload)
GossipSendNext ==
    \/ \E connected \in BOOLEAN :
          SendTaskConnect(connected)
             /\ UNCHANGED <<gossVars, mgrVars, nodeVars, pohVars, ccVars, icVars, psVars, poolVars, lockVars, execVars, consVars>>
    \/ SendTaskSend /\ UNCHANGED <<gossVars, mgrVars, nodeVars, pohVars, ccVars, icVars, psVars, poolVars, lockVars, execVars, consVars>>
    \/ SendTaskClose /\ UNCHANGED <<gossVars, mgrVars, nodeVars, pohVars, ccVars, icVars, psVars, poolVars, lockVars, execVars, consVars>>
    \/ \E sent \in BOOLEAN :
          WriterStep(sent) /\ UNCHANGED <<gossVars, mgrVars, nodeVars, extVars, poolVars, lockVars, execVars, consVars>>
    \/ ReaderStep /\ UNCHANGED <<gossVars, mgrVars, nodeVars, extVars, poolVars, lockVars, execVars, consVars>>
    \/ \E frame \in ConnFrames :
          PeerSend(frame) /\ UNCHANGED <<gossVars, mgrVars, nodeVars, extVars, poolVars, lockVars, execVars, consVars>>
    \/ PeerClose /\ UNCHANGED <<gossVars, mgrVars, nodeVars, extVars, poolVars, lockVars, execVars, consVars>>
    \/ StreamBreak /\ UNCHANGED <<gossVars, mgrVars, nodeVars, extVars, poolVars, lockVars, execVars, consVars>>
SpecGossipSend == GossipSendInit /\ [][GossipSendNext]_vars


\* One Connection whose read and write loops take a step whenever they can.
SpecConnFair ==
    /\ ConnInit /\ [][ConnNext]_vars
    /\ WF_vars(ReaderTaskStep) /\ WF_vars(WriterTaskStep)


\* A started node: its four attached tasks, messages arriving from the
\* network, transactions submitted over RPC, and ServiceHandle::shutdown.
\* Every task and the shutdown call take a step whenever they can; arrivals
\* and submissions happen or not. The pool has the largest size and LRU
\* capacity of the ranges used here (Node::start passes cfg.max_txpool_size
\* and 10_000).
NodeInit ==
    /\ PoolNew /\ max_size = MaxMaxSize /\ lru_capacity = MaxLruCap
    /\ LocksNew /\ shard_count = 1 /\ ExecIdle /\ ConsIdle
    /\ ConnNone /\ GossipIdle /\ ManagerNew /\ NodeStarted /\ ExtIdle
ListenerTaskStep ==
    /\ \/ \E bound \in BOOLEAN : ListenerStart(bound)
       \/ ListenerWatch
       \/ ListenerWake
    /\ UNCHANGED <<connVars, gossVars, mgrVars, extVars, poolVars, lockVars, execVars, consVars>>
DispatcherTaskStep ==
    /\ \/ DispatcherCheck /\ UNCHANGED poolVars
       \/ \E valid \in BOOLEAN :
             (valid => BagCardinality(heap) < MaxHeap) /\ DispatcherRecv(valid)
    /\ UNCHANGED <<connVars, gossVars, mgrVars, extVars, lockVars, execVars, consVars>>
ForwarderTaskStep ==
    /\ \/ ForwarderCheck /\ UNCHANGED poolVars
       \/ ForwarderPop
       \/ ForwarderSend /\ UNCHANGED poolVars
       \/ ForwarderWake /\ UNCHANGED poolVars
    /\ UNCHANGED <<connVars, gossVars, mgrVars, extVars, lockVars, execVars, consVars>>
RpcTaskStep ==
    /\ \E bound \in BOOLEAN : RpcStart(bound)
    /\ UNCHANGED <<connVars, gossVars, mgrVars, extVars, poolVars, lockVars, execVars, consVars>>
ShutdownStep ==
    /\ ShutdownJoin
    /\ UNCHANGED <<connVars, gossVars, mgrVars, extVars, poolVars, lockVars, execVars, consVars>>
NodeNext ==
    \/ \E bound \in BOOLEAN :
          ListenerStart(bound)
             /\ UNCHANGED <<connVars, gossVars, mgrVars, extVars, poolVars, lockVars, execVars, consVars>>
    \/ ListenerWatch /\ UNCHANGED <<connVars, gossVars, mgrVars, extVars, poolVars, lockVars, execVars, consVars>>
    \/ ListenerWake /\ UNCHANGED <<connVars, gossVars, mgrVars, extVars, poolVars, lockVars, execVars, consVars>>
    \/ DispatcherCheck /\ UNCHANGED <<connVars, gossVars, mgrVars, extVars, poolVars, lockVars, execVars, consVars>>
    \/ \E valid \in BOOLEAN :
          (valid => BagCardinality(heap) < MaxHeap) /\ DispatcherRecv(valid)
             /\ UNCHANGED <<connVars, gossVars, mgrVars, extVars, lockVars, execVars, consVars>>
    \/ ForwarderCheck /\ UNCHANGED <<connVars, gossVars, mgrVars, extVars, poolVars, lockVars, execVars, consVars>>
    \/ ForwarderPop /\ UNCHANGED <<connVars, gossVars, mgrVars, extVars, lockVars, execVars, consVars>>
    \/ ForwarderSend /\ UNCHANGED <<connVars, gossVars, mgrVars, extVars, poolVars, lockVars, execVars, consVars>>
    \/ ForwarderWake /\ UNCHANGED <<connVars, gossVars, mgrVars, extVars, poolVars, lockVars, execVars, consVars>>
    \/ \E bound \in BOOLEAN :
          RpcStart(bound)
             /\ UNCHANGED <<connVars, gossVars, mgrVars, extVars, poolVars, lockVars, execVars, consVars>>
    \/ \E tx \in NodeTxs, valid \in BOOLEAN :
          (valid => BagCardinality(heap) < MaxHeap) /\ RpcSubmit(tx, valid)
             /\ UNCHANGED <<connVars, gossVars, mgrVars, extVars, lockVars, execVars, consVars>>
    \/ \E msg \in NodeMessages :
          InboundArrive(msg)
             /\ UNCHANGED <<connVars, gossVars, mgrVars, extVars, poolVars, lockVars, execVars, consVars>>
    \/ ShutdownSignal /\ UNCHANGED <<connVars, gossVars, mgrVars, extVars, poolVars, lockVars, execVars, consVars>>
    \/ ShutdownJoin /\ UNCHANGED <<connVars, gossVars, mgrVars, extVars, poolVars, lockVars, execVars, consVars>>
SpecNodeFair ==
    /\ NodeInit /\ [][NodeNext]_vars
    /\ WF_vars(ListenerTaskStep) /\ WF_vars(DispatcherTaskStep)
    /\ WF_vars(ForwarderTaskStep) /\ WF_vars(RpcTaskStep) /\ WF_vars(ShutdownStep)


(***************************************************************************)
(*                  AccountCache called on its own                         *)
(***************************************************************************)

\* The balances handed to insert and set by the closures given to modify.
CacheLamports == {0, 50, 100}

\* AccountCache::modify with a closure that either sets the lamports and
\* returns Ok or returns Err without touching the account: [cache, ok].
CacheModify(c, st, k, succeeds, lamports) ==
    IF c[k] # None
    THEN IF succeeds
         THEN [cache |-> [c EXCEPT ![k] = Some([lamports |-> lamports, dirty |-> TRUE])],
               ok |-> TRUE]
         ELSE [cache |-> c, ok |-> FALSE]
    ELSE IF st[k] # None
         THEN [cache |-> [c EXCEPT ![k] =
                             Some([lamports |-> IF succeeds THEN lamports ELSE Unwrap(st[k]),
                                   dirty |-> TRUE])],
               ok |-> succeeds]
         ELSE [cache |-> c, ok |-> FALSE]

\* cache.get(key)
CacheGetCall(k) ==
    /\ cache' = CacheGet(cache, store, k).cache
    /\ UNCHANGED <<batch, store, local, receipt, receipts, mainPc, initial, saturated>>

\* cache.insert(key, account)
CacheInsertCall(k, lamports) ==
    /\ cache' = CacheInsert(cache, k, lamports)
    /\ UNCHANGED <<batch, store, local, receipt, receipts, mainPc, initial, saturated>>

\* cache.modify(key, mutator)
CacheModifyCall(k, succeeds, lamports) ==
    /\ cache' = CacheModify(cache, store, k, succeeds, lamports).cache
    /\ UNCHANGED <<batch, store, local, receipt, receipts, mainPc, initial, saturated>>

\* cache.flush()
CacheFlushCall ==
    LET f == CacheFlush(cache, store) IN
    /\ cache' = f.cache
    /\ store' = f.store
    /\ UNCHANGED <<batch, local, receipt, receipts, mainPc, initial, saturated>>

\* AccountCache::new over an empty InMemAccountStore, and the calls on it.
CacheInit == PoolIdle /\ LocksNew /\ shard_count = 1 /\ ExecIdle /\ ConsIdle /\ NetIdle
CacheNext ==
    \/ \E k \in Accounts : CacheGetCall(k) /\ UNCHANGED <<netVars, poolVars, lockVars, consVars>>
    \/ \E k \in Accounts, a \in CacheLamports :
          CacheInsertCall(k, a) /\ UNCHANGED <<netVars, poolVars, lockVars, consVars>>
    \/ \E k \in Accounts, ok \in BOOLEAN, a \in CacheLamports :
          CacheModifyCall(k, ok, a) /\ UNCHANGED <<netVars, poolVars, lockVars, consVars>>
    \/ CacheFlushCall /\ UNCHANGED <<netVars, poolVars, lockVars, consVars>>
SpecCache == CacheInit /\ [][CacheNext]_vars

(***************************************************************************)
(*             AccountCache called by concurrent callers                   *)
(***************************************************************************)

\* The callers hold clones of one AccountCache and call get, insert, modify
\* and flush.  A step is what a call does between two points at which it
\* holds neither a DashMap shard guard nor an entry's RwLock guard.
MaxCacheCalls == 4
ConcLamports == {50, 100}

CallIdle(c) == ccall[c].op = "none" /\ ncalls < MaxCacheCalls
execRest == <<batch, local, receipt, receipts, mainPc, initial, saturated>>

\* flush holds the read guard of the shard of the entry it is at (the Ref `r`
\* of its loop) until the end of the loop body, so DashMap::insert of that key
\* waits for it.
ShardFree(k) == \A d \in Callers : ~(ccall[d].pc = "flush_mark" /\ ccall[d].key = k)

CallReturned(c) == [ccall EXCEPT ![c] = NoCall]

\* get: `self.map.get(key)`; a hit returns the cached account.
ConcGetStart(c, k) ==
    /\ CallIdle(c)
    /\ ncalls' = ncalls + 1
    /\ ccall' = IF cache[k] # None THEN ccall
                ELSE [ccall EXCEPT ![c] = [NoCall EXCEPT !.op = "get", !.pc = "get_load", !.key = k]]
    /\ UNCHANGED <<cache, store, last_write, execRest>>

\* get: `self.store.get(key)?`
ConcGetLoad(c) ==
    /\ ccall[c].pc = "get_load"
    /\ ccall' = IF store[ccall[c].key] = None THEN CallReturned(c)
                ELSE [ccall EXCEPT ![c].pc = "get_insert", ![c].loaded = store[ccall[c].key]]
    /\ UNCHANGED <<cache, store, last_write, ncalls, execRest>>

\* get: `self.map.insert(key.clone(), ...)` of the loaded account, clean.
ConcGetInsert(c) ==
    /\ ccall[c].pc = "get_insert"
    /\ ShardFree(ccall[c].key)
    /\ cache' = [cache EXCEPT ![ccall[c].key] =
                    Some([lamports |-> Unwrap(ccall[c].loaded), dirty |-> FALSE])]
    /\ ccall' = CallReturned(c)
    /\ UNCHANGED <<store, last_write, ncalls, execRest>>

\* insert(key, account)
ConcInsert(c, k, lamports) ==
    /\ CallIdle(c)
    /\ ShardFree(k)
    /\ ncalls' = ncalls + 1
    /\ cache' = CacheInsert(cache, k, lamports)
    /\ last_write' = [last_write EXCEPT ![k] = Some(lamports)]
    /\ UNCHANGED <<ccall, store, execRest>>

\* modify: `self.map.get(key)`; on a hit the closure runs under the entry's
\* write guard and the call returns.
ConcModifyStart(c, k, succeeds, lamports) ==
    /\ CallIdle(c)
    /\ ncalls' = ncalls + 1
    /\ IF cache[k] # None
       THEN /\ cache' = CacheModify(cache, store, k, succeeds, lamports).cache
            /\ last_write' = IF succeeds THEN [last_write EXCEPT ![k] = Some(lamports)]
                             ELSE last_write
            /\ UNCHANGED ccall
       ELSE /\ ccall' = [ccall EXCEPT ![c] = [NoCall EXCEPT !.op = "modify", !.pc = "mod_load",
                                                 !.key = k, !.succeeds = succeeds,
                                                 !.lamports = lamports]]
            /\ UNCHANGED <<cache, last_write>>
    /\ UNCHANGED <<store, execRest>>

\* modify: `self.store.get(key)?`; a missing account is the error return.
ConcModifyLoad(c) ==
    /\ ccall[c].pc = "mod_load"
    /\ ccall' = IF store[ccall[c].key] = None THEN CallReturned(c)
                ELSE [ccall EXCEPT ![c].pc = "mod_insert", ![c].loaded = store[ccall[c].key]]
    /\ UNCHANGED <<cache, store, last_write, ncalls, execRest>>

\* modify: `self.map.insert(key.clone(), ...)` of the loaded account, dirty.
ConcModifyInsert(c) ==
    /\ ccall[c].pc = "mod_insert"
    /\ ShardFree(ccall[c].key)
    /\ cache' = [cache EXCEPT ![ccall[c].key] =
                    Some([lamports |-> Unwrap(ccall[c].loaded), dirty |-> TRUE])]
    /\ ccall' = [ccall EXCEPT ![c].pc = "mod_write"]
    /\ UNCHANGED <<store, last_write, ncalls, execRest>>

\* modify: `self.map.get(key)` again, the closure on the entry found there.
ConcModifyWrite(c) ==
    /\ ccall[c].pc = "mod_write"
    /\ cache' = CacheModify(cache, store, ccall[c].key, ccall[c].succeeds, ccall[c].lamports).cache
    /\ last_write' = IF ccall[c].succeeds
                     THEN [last_write EXCEPT ![ccall[c].key] = Some(ccall[c].lamports)]
                     ELSE last_write
    /\ ccall' = CallReturned(c)
    /\ UNCHANGED <<store, ncalls, execRest>>

\* flush: `self.map.iter()`
ConcFlushStart(c) ==
    /\ CallIdle(c)
    /\ ncalls' = ncalls + 1
    /\ ccall' = [ccall EXCEPT ![c] = [NoCall EXCEPT !.op = "flush", !.pc = "flush_iter",
                                         !.todo = Accounts]]
    /\ UNCHANGED <<cache, store, last_write, execRest>>

FlushAfter(c, k) ==
    IF ccall[c].todo = {k} THEN CallReturned(c)
    ELSE [ccall EXCEPT ![c].pc = "flush_iter", ![c].todo = @ \ {k}, ![c].key = "-"]

\* flush, one entry: under its read guard a dirty account is written to the
\* store, and the guard is dropped.
ConcFlushVisit(c, k) ==
    /\ ccall[c].pc = "flush_iter"
    /\ k \in ccall[c].todo
    /\ IF cache[k] # None /\ Unwrap(cache[k]).dirty
       THEN /\ store' = [store EXCEPT ![k] = Some(Unwrap(cache[k]).lamports)]
            /\ ccall' = [ccall EXCEPT ![c].pc = "flush_mark", ![c].key = k]
       ELSE /\ ccall' = FlushAfter(c, k)
            /\ UNCHANGED store
    /\ UNCHANGED <<cache, last_write, ncalls, execRest>>

\* flush, the same entry: `entry_lock.write()` and `dirty = false`.
ConcFlushMark(c) ==
    /\ ccall[c].pc = "flush_mark"
    /\ cache' = [cache EXCEPT ![ccall[c].key] = Some([Unwrap(@) EXCEPT !.dirty = FALSE])]
    /\ ccall' = FlushAfter(c, ccall[c].key)
    /\ UNCHANGED <<store, last_write, ncalls, execRest>>

\* A cache over a store that may already hold accounts.
CacheConcInit ==
    /\ PoolIdle /\ LocksNew /\ shard_count = 1 /\ ConsIdle
    /\ ConnNone /\ GossipIdle /\ ManagerNew /\ NodeIdle /\ PohIdle /\ SendIdle /\ CcIdle /\ IcIdle /\ PsIdle
    /\ batch = <<>> /\ cache = [k \in Accounts |-> None]
    /\ store \in [Accounts -> {None, Some(50)}]
    /\ local = [t \in Tasks |-> NoLocal] /\ receipt = [t \in Tasks |-> None]
    /\ receipts = <<>> /\ mainPc = "idle" /\ initial = store /\ saturated = FALSE
ccOthers == <<connVars, gossVars, mgrVars, nodeVars, pohVars, sendVars, icVars, psVars, poolVars, lockVars, consVars>>
CacheConcNext ==
    \/ \E c \in Callers, k \in Accounts : ConcGetStart(c, k) /\ UNCHANGED ccOthers
    \/ \E c \in Callers : ConcGetLoad(c) /\ UNCHANGED ccOthers
    \/ \E c \in Callers : ConcGetInsert(c) /\ UNCHANGED ccOthers
    \/ \E c \in Callers, k \in Accounts, a \in ConcLamports :
          ConcInsert(c, k, a) /\ UNCHANGED ccOthers
    \/ \E c \in Callers, k \in Accounts, ok \in BOOLEAN, a \in ConcLamports :
          ConcModifyStart(c, k, ok, a) /\ UNCHANGED ccOthers
    \/ \E c \in Callers : ConcModifyLoad(c) /\ UNCHANGED ccOthers
    \/ \E c \in Callers : ConcModifyInsert(c) /\ UNCHANGED ccOthers
    \/ \E c \in Callers : ConcModifyWrite(c) /\ UNCHANGED ccOthers
    \/ \E c \in Callers : ConcFlushStart(c) /\ UNCHANGED ccOthers
    \/ \E c \in Callers, k \in Accounts : ConcFlushVisit(c, k) /\ UNCHANGED ccOthers
    \/ \E c \in Callers : ConcFlushMark(c) /\ UNCHANGED ccOthers
SpecCacheConc == CacheConcInit /\ [][CacheConcNext]_vars

(***************************************************************************)
(*                     PeerStore called on its own                         *)
(***************************************************************************)

MaxInstant == 3       \* the clock runs over 0..MaxInstant
PeerAddrs == {"h1", "h2"}
BanDurations == {0, 1, 2}
GcTimeouts == {1, 2}

\* PeerInfo::healthy at the instant t
healthy(p, t) == IF p.ban # None THEN t > Unwrap(p.ban) ELSE TRUE

\* PeerStore::add_peer
add_peer(id, addr) ==
    /\ inner' = MapPut(inner, id,
                       [node_id |-> id, addr |-> addr, last_seen |-> instant, ban |-> None])
    /\ UNCHANGED instant

\* PeerStore::update_seen
update_seen(id) ==
    /\ inner' = IF id \in DOMAIN inner
                THEN [inner EXCEPT ![id].last_seen = instant] ELSE inner
    /\ UNCHANGED instant

\* PeerStore::remove_peer
remove_peer(id) ==
    /\ inner' = MapRemove(inner, id)
    /\ UNCHANGED instant

\* PeerStore::gc
gc(timeout) ==
    /\ inner' = [id \in {x \in DOMAIN inner : instant - inner[x].last_seen < timeout}
                   |-> inner[id]]
    /\ UNCHANGED instant

\* PeerStore::ban_peer
ban_peer(id, dur) ==
    /\ inner' = IF id \in DOMAIN inner
                THEN [inner EXCEPT ![id].ban = Some(instant + dur)] ELSE inner
    /\ UNCHANGED instant

\* Time passes.
InstantTick ==
    /\ instant < MaxInstant
    /\ instant' = instant + 1
    /\ UNCHANGED inner

psOthers == <<connVars, gossVars, mgrVars, nodeVars, pohVars, sendVars, ccVars, icVars,
              poolVars, lockVars, execVars, consVars>>
PeersInit == PoolIdle /\ LocksNew /\ shard_count = 1 /\ ExecIdle /\ ConsIdle /\ NetIdle
PeersNext ==
    \/ \E id \in PeerIds, addr \in PeerAddrs : add_peer(id, addr) /\ UNCHANGED psOthers
    \/ \E id \in PeerIds : update_seen(id) /\ UNCHANGED psOthers
    \/ \E id \in PeerIds : remove_peer(id) /\ UNCHANGED psOthers
    \/ \E timeout \in GcTimeouts : gc(timeout) /\ UNCHANGED psOthers
    \/ \E id \in PeerIds, dur \in BanDurations : ban_peer(id, dur) /\ UNCHANGED psOthers
    \/ InstantTick /\ UNCHANGED psOthers
SpecPeers == PeersInit /\ [][PeersNext]_vars


(***************************************************************************)
(*                        Properties of the TxPool                         *)
(***************************************************************************)

PrioOf(entry) == entry.meta.priority
Higher(p, q) == PartialCmp(p, q) = "Greater"
SamePrio(p, q) == PartialCmp(p, q) = "Equal"

\* C1: pop_priority returns transactions in non-increasing priority order: no
\* returned transaction has a higher priority than one placed before it, and
\* no transaction left in the pool has a higher priority than a returned one.
C1_PopNonIncreasing ==
    poolRet.op = "pop" =>
        LET sel == poolRet.selected IN
        /\ \A i, j \in 1..Len(sel) : i < j => ~Higher(PrioOf(sel[j]), PrioOf(sel[i]))
        /\ \A k \in DOMAIN entries : \A i \in 1..Len(sel) :
               ~Higher(PrioOf(entries[k]), PrioOf(sel[i]))

\* C2: among transactions of equal priority that are in the pool together,
\* pop_priority returns the one inserted earlier before the one inserted
\* later (and never leaves the earlier one behind while returning the later).
C2_TieEarlierFirst ==
    poolRet.op = "pop" =>
        LET sel == poolRet.selected IN
        /\ \A i, j \in 1..Len(sel) :
               (i < j /\ SamePrio(PrioOf(sel[i]), PrioOf(sel[j])))
                   => sel[i].meta.inserted_at <= sel[j].meta.inserted_at
        /\ \A k \in DOMAIN entries : \A i \in 1..Len(sel) :
               SamePrio(PrioOf(entries[k]), PrioOf(sel[i]))
                   => sel[i].meta.inserted_at <= entries[k].meta.inserted_at

(***************************************************************************)
(*                      Properties of AccountLocks                         *)
(***************************************************************************)

\* Task t holds an OwnedMutexGuard of a mutex made for key k.
Holds(t, k) == \E i \in 1..Len(guards[t]) : mutexes[guards[t][i]].key = k
GuardsOn(t, k) == Cardinality({i \in 1..Len(guards[t]) : mutexes[guards[t][i]].key = k})
Requests(t, k) == \E i \in 1..Len(args[t]) : args[t][i] = k
Acquiring(t) == pc[t] \in {"shard", "map", "lock"}
Returned(t) == pc[t] \in {"held", "dropping", "done"}

\* C5: mutual exclusion per key: at no time do two tasks both hold a guard
\* covering the same key.
C5_MutualExclusion ==
    \A k \in Accounts : \A t1, t2 \in Tasks :
        t1 # t2 => ~(Holds(t1, k) /\ Holds(t2, k))

\* C5 witness: one task holds the guard on a key whose mutex it created on
\* first use while another task that asked for the same key waits for it.
C5_Witness ==
    \E k \in Accounts : \E t1, t2 \in Tasks :
        /\ t1 # t2
        /\ pc[t1] = "held" /\ Holds(t1, k)
        /\ pc[t2] = "lock" /\ mutexes[cur[t2]].key = k
        /\ Requests(t1, k) /\ Requests(t2, k)

\* C6: deadlock-freedom: when no call names a key twice and every returned
\* LockGuard is eventually dropped, every acquire call under way eventually
\* returns its LockGuard.
C6_DeadlockFree == \A t \in Tasks : Acquiring(t) ~> Returned(t)

\* C6 witness: two calls over the same two keys given in opposite orders; one
\* has returned while the other still waits for the first key.
C6_Witness ==
    \E t1, t2 \in Tasks :
        /\ t1 # t2
        /\ Len(args[t1]) = 2 /\ ~HasRepeat(args[t1])
        /\ args[t2] = <<args[t1][2], args[t1][1]>>
        /\ pc[t1] = "held"
        /\ pc[t2] = "lock" /\ guards[t2] = <<>>

\* C7: acquire deduplicates its input: a call that names a key more than once
\* never waits on a mutex it holds itself, and the LockGuard it returns holds
\* each named key exactly once.
C7_DedupBeforeLocking ==
    \A t \in Tasks :
        /\ pc[t] = "lock" => mutexes[cur[t]].owner # Some(t)
        /\ pc[t] = "held" => \A k \in Accounts : Requests(t, k) => GuardsOn(t, k) = 1

(***************************************************************************)
(*                       Properties of the Executor                        *)
(***************************************************************************)

\* The per-transaction flow run on its own: view is key -> Option<lamports>.
SerialStep(view, tx) ==
    LET from_acc == OrDefault(view[tx.from])
        to_acc == OrDefault(view[tx.to])
    IN IF from_acc < tx.amount
       THEN [view |-> view, success |-> FALSE]
       ELSE [view |-> [[view EXCEPT ![tx.from] = Some(SaturatingSub(from_acc, tx.amount))]
                             EXCEPT ![tx.to] = Some(SaturatingAdd(to_acc, tx.amount))],
             success |-> TRUE]

\* Every result of running the transactions todo of the batch one at a time.
RECURSIVE SerialRuns(_, _, _)
SerialRuns(todo, view, succ) ==
    IF todo = {} THEN {[view |-> view, success |-> succ]}
    ELSE UNION {
        LET r == SerialStep(view, batch[i])
        IN SerialRuns(todo \ {i}, r.view, [succ EXCEPT ![i] = r.success])
        : i \in todo}

\* The balance a reader of the cache sees for k.
CacheView(k) == IF cache[k] # None THEN Some(Unwrap(cache[k]).lamports) ELSE store[k]

\* C3: serial equivalence: when execute_transactions returns, the balance of
\* every account (cached and stored) and the success of every receipt are
\* those of running the batch's transfers one at a time in some order.
C3_SerialEquivalent ==
    mainPc = "returned" =>
        \E o \in SerialRuns(DOMAIN batch, initial, [i \in DOMAIN batch |-> FALSE]) :
            /\ \A k \in Accounts : CacheView(k) = o.view[k] /\ store[k] = o.view[k]
            /\ \A i \in DOMAIN batch : receipts[i].success = o.success[i]

\* C3 witness: alice=100, bob=50, [alice->bob 30, alice->bob 40] has ended
\* with alice=30, bob=120 and two successful receipts.
C3_Witness ==
    /\ mainPc = "returned"
    /\ initial = [k \in Accounts |-> IF k = "a" THEN Some(100) ELSE Some(50)]
    /\ batch = <<[from |-> "a", to |-> "b", amount |-> 30, nonce |-> 1],
                 [from |-> "a", to |-> "b", amount |-> 40, nonce |-> 1]>>
    /\ store = [k \in Accounts |-> IF k = "a" THEN Some(30) ELSE Some(120)]
    /\ receipts[1].success /\ receipts[2].success

RECURSIVE SumAmounts(_, _, _)
SumAmounts(rs, field, k) ==
    IF rs = <<>> THEN 0
    ELSE (IF Head(rs).success /\ Head(rs).tx[field] = k THEN Head(rs).tx.amount ELSE 0)
         + SumAmounts(Tail(rs), field, k)

\* C4: balance conservation per account: if no credit saturated, the balance
\* before equals the balance after plus the successful debits minus the
\* successful credits of that account.
C4_BalanceConservation ==
    (mainPc = "returned" /\ ~saturated) =>
        \A k \in Accounts :
            OrDefault(initial[k]) =
                OrDefault(store[k]) + SumAmounts(receipts, "from", k)
                                    - SumAmounts(receipts, "to", k)

(***************************************************************************)
(*                        Properties of the engine                         *)
(***************************************************************************)

FinalizedHashes == {finalized[i].block_hash : i \in 1..Len(finalized)}
VotersOf(vs, h) == IF h \in DOMAIN vs THEN vs[h].voters ELSE {}
WeightOf(vs, h) == IF h \in DOMAIN vs THEN vs[h].yes_weight ELSE 0

\* The votes record_vote can be called with: those the network delivers,
\* the local votes for delivered proposals, and the votes being handled.
VotesOnOffer ==
    [validator : Validators, slot : Slots, block_hash : Hashes, signature : {<<>>}]
        \cup {Unwrap(cvote[c]) : c \in {d \in Callers : cvote[d] # None}}

\* C8: no block_hash is at once a key of pending_proposals and the
\* block_hash of an entry of finalized, so a block_hash that has been
\* finalized never re-enters pending_proposals.
C8_PendingXorFinalized == FinalizedHashes \cap DOMAIN pending_proposals = {}

\* C9: the finalized sequence is appended in monotonic slot order: the
\* slots of consecutive entries never decrease.
C9_FinalizedSlotsMonotonic ==
    \A i \in 1..(Len(finalized) - 1) : finalized[i].slot <= finalized[i + 1].slot

\* C10: record_vote returns true exactly when the (validator, block_hash)
\* pair has not been recorded before, and then adds the validator and raises
\* the weight of that block_hash by one; a repeated vote returns false and
\* changes nothing; so yes_weight[h] is the number of distinct validators in
\* the voter set of h in every reachable state.
C10_RecordVoteCountsOnce ==
    /\ \A h \in DOMAIN votes : votes[h].yes_weight = Cardinality(votes[h].voters)
    /\ \A v \in VotesOnOffer :
          LET r == RecordVote(votes, v)
              h == v.block_hash
              new == v.validator \notin VotersOf(votes, h)
          IN /\ r.ret = new
             /\ new => /\ WeightOf(r.votes, h) = WeightOf(votes, h) + 1
                       /\ VotersOf(r.votes, h) = VotersOf(votes, h) \cup {v.validator}
                       /\ \A g \in DOMAIN votes \ {h} :
                             g \in DOMAIN r.votes /\ r.votes[g] = votes[g]
             /\ ~new => r.votes = votes

\* C10 witness: a block_hash has two recorded voters and handle_proposal is
\* about to hand record_vote a local vote that is already recorded.
C10_Witness ==
    /\ \E h \in DOMAIN votes : votes[h].yes_weight = 2
    /\ \E c \in Callers :
          /\ cpc[c] = "vote"
          /\ Unwrap(cvote[c]).validator \in VotersOf(votes, Unwrap(cvote[c]).block_hash)

\* C11: for every block_hash h the value of try_finalize(h) changes from
\* false to true at most once: no step of the engine takes try_finalize(h)
\* from true back to false.
C11_TryFinalizeStaysTrue ==
    [][\A h \in Hashes :
          TryFinalize(votes, total_stake, h) => TryFinalize(votes', total_stake', h)]_vars

(***************************************************************************)
(*                     Properties of ConsensusState                        *)
(***************************************************************************)

\* C12: try_finalize(h) is true if and only if votes have been recorded for
\* h, total_stake > 0 and 3 * yes_weight(h) >= 2 * total_stake in exact
\* arithmetic, for every yes_weight and total_stake of the u64 range; with
\* total_stake = 3, three distinct votes on h make it true.
C12_TryFinalizeThreshold ==
    \A h \in Hashes :
       /\ TryFinalize(votes, total_stake, h)
             <=> /\ h \in DOMAIN votes
                 /\ total_stake > 0
                 /\ 3 * WeightOf(votes, h) >= 2 * total_stake
       /\ \A yes \in StakeTotals :
             h \in DOMAIN votes =>
                (TryFinalize(MapPut(votes, h, [voters |-> votes[h].voters, yes_weight |-> yes]),
                             total_stake, h)
                    <=> (total_stake > 0 /\ 3 * yes >= 2 * total_stake))
       /\ (total_stake = 3 /\ Cardinality(VotersOf(votes, h)) = 3)
             => TryFinalize(votes, total_stake, h)

\* C12 witness: total_stake = 3 and three distinct votes are recorded on a
\* block_hash, for which try_finalize is true.
C12_Witness ==
    /\ total_stake = 3
    /\ \E h \in DOMAIN votes :
          Cardinality(votes[h].voters) = 3 /\ TryFinalize(votes, total_stake, h)

\* C13: finalize_block(h) on a pending h removes h from pending_proposals,
\* appends FinalizedBlock{slot, block_hash = h, proposer} of that proposal to
\* the end of finalized and returns it; on an h that is not pending it
\* returns None and leaves pending_proposals, votes and finalized as they
\* were; entries already in finalized are never removed, reordered or altered.
C13_FinalizeBlockMoves ==
    /\ [](\A h \in Hashes :
            LET r == FinalizeBlock(pending_proposals, finalized, h) IN
            IF h \in DOMAIN pending_proposals
            THEN LET fb == [slot |-> pending_proposals[h].slot, block_hash |-> h,
                            proposer |-> pending_proposals[h].proposer]
                 IN /\ DOMAIN r.pending = DOMAIN pending_proposals \ {h}
                    /\ \A g \in DOMAIN r.pending : r.pending[g] = pending_proposals[g]
                    /\ r.finalized = finalized \o <<fb>>
                    /\ r.ret = Some(fb)
            ELSE /\ r.ret = None
                 /\ r.pending = pending_proposals
                 /\ r.finalized = finalized)
    /\ [][/\ Len(finalized') >= Len(finalized)
          /\ SubSeq(finalized', 1, Len(finalized)) = finalized
          /\ finalized' # finalized => votes' = votes]_vars

\* C13 witness: two blocks have been finalized, the last one is no longer
\* pending, and another proposal still is.
C13_Witness ==
    /\ Len(finalized) = 2
    /\ finalized[2].block_hash \notin DOMAIN pending_proposals
    /\ \E g \in DOMAIN pending_proposals : g # finalized[2].block_hash

(***************************************************************************)
(*                  Properties of TxPool::insert                           *)
(***************************************************************************)

\* C14: insert(tx) for a transaction whose TxId is in entries returns
\* Err(Duplicate) and leaves entries (so len() and the stored metadata), the
\* priority heap and the LRU index unchanged.
C14_DuplicateRejected ==
    [][\A tx \in TxUniverse :
          (TxIdOf(tx) \in DOMAIN entries /\ Insert(tx))
             => /\ poolRet'.res = "Duplicate"
                /\ entries' = entries
                /\ heap' = heap
                /\ lru' = lru]_vars

\* C14 witness: the last call was an insert answered Duplicate, of a
\* transaction stored at an earlier instant.
C14_Witness ==
    /\ poolRet.op = "insert"
    /\ poolRet.res = "Duplicate"
    /\ TxIdOf(poolRet.tx) \in DOMAIN entries
    /\ entries[TxIdOf(poolRet.tx)].meta.inserted_at < now

\* C15 (as claimed): an insert(tx) of a transaction not in the pool that
\* returns Ok increases len() by exactly one, in every pool state.
C15_InsertAddsOne ==
    [][\A tx \in TxUniverse :
          (TxIdOf(tx) \notin DOMAIN entries /\ Insert(tx) /\ poolRet'.res = "Ok")
             => Cardinality(DOMAIN entries') = Cardinality(DOMAIN entries) + 1]_vars

\* C15 (amended): an insert(tx) of a transaction not in the pool that
\* returns Ok increases len() by exactly one when len() < max_size at the
\* call, and leaves len() unchanged when len() >= max_size (one entry is
\* evicted and tx is admitted).
C15_InsertAddsOneBelowCapacity ==
    [][\A tx \in TxUniverse :
          (TxIdOf(tx) \notin DOMAIN entries /\ Insert(tx) /\ poolRet'.res = "Ok")
             => /\ TxIdOf(tx) \in DOMAIN entries'
                /\ Cardinality(DOMAIN entries') =
                      IF Cardinality(DOMAIN entries) < max_size
                      THEN Cardinality(DOMAIN entries) + 1
                      ELSE Cardinality(DOMAIN entries)]_vars

\* C15 witness: the last insert returned Ok after evicting a victim, and the
\* pool is at its capacity.
C15_Witness ==
    /\ poolRet.op = "insert"
    /\ poolRet.res = "Ok"
    /\ poolRet.victim # None
    /\ Cardinality(DOMAIN entries) = max_size

\* C16: when len() >= max_size, insert of a new tx makes one eviction
\* attempt: if the LRU index holds a victim, exactly one existing entry, the
\* least recently inserted txid of the LRU index, is removed from entries and
\* tx is admitted; if the LRU index is empty the call returns Err(PoolFull)
\* and entries, heap and LRU index are unchanged.
C16_AdmissionAtCapacity ==
    [][\A tx \in TxUniverse :
          (/\ TxIdOf(tx) \notin DOMAIN entries
           /\ Cardinality(DOMAIN entries) >= max_size
           /\ Insert(tx))
             => IF lru # <<>>
                THEN /\ poolRet'.res = "Ok"
                     /\ \E victim \in DOMAIN entries :
                           /\ SeqHas(lru, victim)
                           /\ \A i \in 1..Len(lru) :
                                 entries[victim].meta.inserted_at
                                    <= entries[lru[i]].meta.inserted_at
                           /\ DOMAIN entries' = (DOMAIN entries \ {victim}) \cup {TxIdOf(tx)}
                           /\ \A k \in DOMAIN entries \ {victim} : entries'[k] = entries[k]
                           /\ ~SeqHas(lru', victim)
                ELSE /\ poolRet'.res = "PoolFull"
                     /\ entries' = entries
                     /\ heap' = heap
                     /\ lru' = lru]_vars

\* C16 witness: the last insert evicted the older of two txids of the LRU
\* index that were inserted at different instants.
C16_Witness ==
    /\ poolRet.op = "insert"
    /\ poolRet.res = "Ok"
    /\ poolRet.victim # None
    /\ \E k \in DOMAIN entries :
          /\ k # TxIdOf(poolRet.tx)
          /\ SeqHas(lru, k)
          /\ entries[k].meta.inserted_at > 0

(***************************************************************************)
(*                  Properties of the executor's receipts                  *)
(***************************************************************************)

\* The balance of k seen through a cache c over a store st, and the keys
\* whose cache entry is dirty.
BalanceIn(c, st, k) == IF c[k] # None THEN Some(Unwrap(c[k]).lamports) ELSE st[k]
DirtyKeys(c) == {k \in Accounts : c[k] # None /\ Unwrap(c[k]).dirty}

\* The steps of task t other than the two cache.insert calls of a funded
\* transfer: taking the locks, the two reads, the funds check that fails,
\* and the release.
QuietStep(t) ==
    /\ pc'[t] # pc[t]
    /\ pc[t] # "insert_to"
    /\ ~(pc[t] = "apply" /\ local[t].from_acc >= batch[t].amount)

\* C17: a transfer whose sender balance is smaller than the amount yields a
\* receipt with success = false, err = "insufficient funds" and
\* post_balances = None, and none of its steps changes the cached or stored
\* balance of any account, creates an account or marks one dirty.
C17_InsufficientFundsNoEffect ==
    /\ [](\A t \in Tasks :
            /\ local[t].err = Some("insufficient funds")
                  => ~local[t].success /\ local[t].post_balances = None
            /\ receipt[t] # None
                  => /\ Unwrap(receipt[t]).err = local[t].err
                     /\ Unwrap(receipt[t]).success = local[t].success
                     /\ Unwrap(receipt[t]).post_balances = local[t].post_balances
                     /\ Unwrap(receipt[t]).success = (local[t].err = None))
    /\ [][\A t \in DOMAIN batch :
            /\ (pc[t] = "apply" /\ pc'[t] # pc[t] /\ local[t].from_acc < batch[t].amount)
                  => local'[t].err = Some("insufficient funds")
            /\ QuietStep(t)
                  => /\ store' = store
                     /\ \A k \in Accounts :
                           BalanceIn(cache', store', k) = BalanceIn(cache, store, k)
                     /\ DirtyKeys(cache') = DirtyKeys(cache)]_vars

\* C17 witness: execute_transactions has returned a receipt that failed for
\* insufficient funds although its sender had a balance at the start.
C17_Witness ==
    /\ mainPc = "returned"
    /\ \E i \in DOMAIN batch :
          /\ receipts[i].err = Some("insufficient funds")
          /\ initial[batch[i].from] # None
          /\ initial[batch[i].to] = None

C19_MissingSenderFails ==
    (mainPc = "returned" /\ \A j \in DOMAIN batch : initial[batch[j].from] = None) =>
        /\ \A j \in DOMAIN batch : ~receipts[j].success
        /\ store = initial

(***************************************************************************)
(*                      Properties of ProofOfStake                         *)
(***************************************************************************)

\* C20: leader-selection determinism: two registries that hold the same
\* validator -> stake map, reached by any sequences of register calls, give
\* the same select_leader_with_seed(s) for every seed s. Here the registry
\* reached so far is set against the one reached by registering the same
\* stakes once each on a fresh ProofOfStake.
C20_LeaderDependsOnStakesOnly ==
    LET once == RegisteredOnce(stakes) IN
    /\ once.stakes = stakes
    /\ \A sd \in Seeds :
          SelectLeaderWithSeed(stakes, pos_total, sd)
             = SelectLeaderWithSeed(once.stakes, once.total, sd)

\* C21: select_leader_with_seed returns None iff no validator is registered
\* or the total stake is 0; otherwise every pick below the total selects the
\* first validator in id order whose cumulative stake exceeds it: the leader
\* is registered, never has stake 0, and each registered validator is the
\* answer for exactly `stake` of the `total` pick values.
C21_LeaderByCumulativeStake ==
    LET ord == Ordered(stakes)
        Cum(i) == LET F[j \in 0..i] == IF j = 0 THEN 0 ELSE F[j - 1] + ord[j].stake
                  IN F[i]
    IN
    /\ \A sd \in Seeds :
          (SelectLeaderWithSeed(stakes, pos_total, sd) = None)
             <=> (ord = <<>> \/ pos_total = 0)
    /\ (ord # <<>> /\ pos_total > 0) =>
          /\ \A pick \in 0..(pos_total - 1) :
                \E i \in 1..Len(ord) :
                   /\ LeaderWalk(ord, 1, 0, pick) = Some(ord[i].validator)
                   /\ Cum(i) > pick
                   /\ \A j \in 1..(i - 1) : Cum(j) <= pick
                   /\ ord[i].stake > 0
          /\ \A i \in 1..Len(ord) :
                Cardinality({pick \in 0..(pos_total - 1) :
                               LeaderWalk(ord, 1, 0, pick) = Some(ord[i].validator)})
                   = ord[i].stake

(***************************************************************************)
(*                      Properties of AccountCache                         *)
(***************************************************************************)

\* The calls that may come between insert(k, a) and flush(): reads of any
\* key and writes to the other keys.
MaxBetween == 2
CallsBesides(k) ==
    [op : {"get"}, key : Accounts, succeeds : {TRUE}, lamports : {0}]
       \cup [op : {"insert"}, key : Accounts \ {k}, succeeds : {TRUE}, lamports : CacheLamports]
       \cup [op : {"modify"}, key : Accounts \ {k}, succeeds : BOOLEAN, lamports : CacheLamports]
CallOn(c, st, call) ==
    IF call.op = "get" THEN CacheGet(c, st, call.key).cache
    ELSE IF call.op = "insert" THEN CacheInsert(c, call.key, call.lamports)
    ELSE CacheModify(c, st, call.key, call.succeeds, call.lamports).cache
RECURSIVE CallsOn(_, _, _)
CallsOn(c, st, calls) ==
    IF calls = <<>> THEN c ELSE CallsOn(CallOn(c, st, Head(calls)), st, Tail(calls))

TakenFrames == SubSeq(arrived, 1, Len(arrived) - Len(unread))
RECURSIVE ForwardedOf(_)
ForwardedOf(frames) ==
    IF frames = <<>> THEN <<>>
    ELSE IF Deserialize(Head(frames)) = None THEN ForwardedOf(Tail(frames))
    ELSE <<(<<peer_addr, Unwrap(Deserialize(Head(frames)))>>)>> \o ForwardedOf(Tail(frames))

\* C23: per-connection FIFO: the frames on the wire are the encodings of the
\* first accepted messages, one each and in the order of acceptance; the
\* inbound channel holds the messages of the frames taken so far, one each
\* and in the order of arrival.
C23_ConnectionFifo ==
    /\ Len(wire) <= Len(accepted)
    /\ \A i \in DOMAIN wire : wire[i] = Serialize(accepted[i])
    /\ inbound = ForwardedOf(TakenFrames)

\* C23 witness: two different messages have gone out and two different
\* messages have come in.
C23_Witness ==
    /\ Len(wire) = 2 /\ wire[1] # wire[2]
    /\ Len(inbound) = 2 /\ inbound[1] # inbound[2]

\* C27: a transport error ends the task it strikes: a turn of the read loop
\* that takes a frame no WireMessage decodes from, or whose read fails,
\* leaves the reader exited and the inbound channel as it was; a turn of
\* the write loop whose write fails leaves the writer exited.
C27_TransportErrorEnds ==
    [][/\ (ReaderStep /\ ~ShutdownReady /\ stream # "broken" /\ unread # <<>>
             /\ Deserialize(Head(unread)) = None) =>
             (reader' = "exited" /\ inbound' = inbound)
       /\ (ReaderStep /\ ~ShutdownReady /\ stream = "broken") =>
             (reader' = "exited" /\ inbound' = inbound)
       /\ (WriterStep(FALSE) /\ ~ShutdownReady) =>
             (writer' = "exited" /\ wire' = wire)]_vars

\* C28: connection shutdown: once close() has fired the one-shot signal
\* both loops eventually exit; and once either loop has exited the other
\* one eventually exits as well.
C28_BothTasksExit ==
    /\ (conn = "closed") ~> (reader = "exited" /\ writer = "exited")
    /\ (reader = "exited") ~> (writer = "exited")
    /\ (writer = "exited") ~> (reader = "exited")

(***************************************************************************)
(*                        Properties of Gossiper                           *)
(***************************************************************************)

\* C24: gossip dedup, for every interleaving of broadcast calls: a payload
\* whose bytes are in the dedup LRU ends its call with no peer contacted and
\* the LRU as it was; a payload not in it is put into the LRU and its call
\* goes on to contact exactly min(fanout, number of peers in the store)
\* peers of the store; and two forwarded broadcasts of one payload have at
\* least dedup_capacity other distinct payloads broadcast between them.
C24_GossipDedup ==
    /\ [](\A i \in DOMAIN glog : \A j \in DOMAIN glog :
             (i < j /\ glog[i].payload = glog[j].payload
                /\ glog[i].admitted /\ glog[j].admitted) =>
                Cardinality({glog[k].payload : k \in (i + 1)..(j - 1)} \ {glog[i].payload})
                   >= dedup_capacity)
    /\ [][\A c \in Callers : \A payload \in GossipPayloads :
             BroadcastDedup(c, payload) =>
                IF SeqHas(dedup, Serialize(payload))
                THEN dedup' = dedup /\ gpc'[c] = "idle" /\ contacted'[c] = {}
                     /\ ~glog'[Len(glog')].admitted
                ELSE SeqHas(dedup', Serialize(payload)) /\ gpc'[c] = "forward"
                     /\ glog'[Len(glog')].admitted]_vars
    /\ [][\A c \in Callers :
             (gpc[c] = "forward" /\ gpc'[c] = "idle") =>
                /\ contacted'[c] \subseteq DOMAIN peerstore
                /\ Cardinality(contacted'[c])
                      = IF fanout < Cardinality(DOMAIN peerstore)
                        THEN fanout ELSE Cardinality(DOMAIN peerstore)]_vars

\* C24 witness: a payload was forwarded, dropped while still in the LRU,
\* and forwarded again after other payloads had pushed it out; the latest
\* call contacted two peers.
C24_Witness ==
    /\ \E i \in DOMAIN glog : \E j \in DOMAIN glog :
          /\ i < j /\ glog[i].payload = glog[j].payload
          /\ glog[i].admitted /\ glog[j].admitted
    /\ \E k \in DOMAIN glog : ~glog[k].admitted
    /\ \E c \in Callers : Cardinality(contacted[c]) = 2

(***************************************************************************)
(*                   Properties of ConnectionManager                       *)
(***************************************************************************)

\* The peer has presented a HandshakeMsg that passes verify_handshake.
HandshakePresented ==
    \E i \in DOMAIN arrived :
       /\ Deserialize(arrived[i]) # None
       /\ Unwrap(Deserialize(arrived[i])).kind = "Handshake"
       /\ VerifyHandshake(Unwrap(Deserialize(arrived[i])).hs)

\* C25: handshake gating: while the peer of an accepted connection has
\* presented no HandshakeMsg that passes verify_handshake, the peer is not
\* in the peer store and none of its messages is on the inbound channel.
C25_HandshakeGating ==
    ~HandshakePresented => (peer_addr \notin DOMAIN peerstore /\ inbound = <<>>)

\* C26: outbound reconnect: the wait before the n-th retry is 500 ms
\* doubled n-1 times, capped at 30 s; and whenever no connection to the
\* peer is running, connect_peer eventually makes a connection attempt.
C26_ReconnectWithBackoff ==
    /\ [](dpc = "sleep" =>
            backoff = IF 500 * (2 ^ retries) < 30000 THEN 500 * (2 ^ retries) ELSE 30000)
    /\ []((reader # "running" /\ writer # "running") => <>(dpc = "connect"))

(***************************************************************************)
(*                     Properties: node shutdown                           *)
(***************************************************************************)

\* C29: cooperative shutdown: once the shutdown watch value is true, the tx
\* forwarder loop, the inbound dispatcher and the network listener watcher
\* each eventually return, and ServiceHandle::shutdown eventually returns.
C29_CooperativeShutdown ==
    /\ shutdown_tx ~> (task["forwarder"] = "done")
    /\ shutdown_tx ~> (task["dispatcher"] = "done")
    /\ shutdown_tx ~> (task["listener"] = "done")
    /\ shutdown_tx ~> ShutdownComplete

(***************************************************************************)
(*                  Properties of TxPool::gc_ttl                           *)
(***************************************************************************)

\* The txids that have an item in the heap h and an entry in e.
LiveIds(h, e) == {item.id : item \in BagToSet(h)} \cap DOMAIN e

\* C30: gc_ttl removes from entries and from the LRU index exactly the
\* transactions whose age now - inserted_at exceeds ttl and keeps every
\* other entry as it was; a removed transaction is absent from get and len
\* while its heap item stays behind; and pop_priority returns only
\* transactions that have an entry, as many as the limit allows among those,
\* so that a leftover heap item is neither returned nor counted.
C30_GcTtlExact ==
    [][/\ (poolRet'.op = "gc_ttl" /\ GcTtl) =>
            LET old == {k \in DOMAIN entries :
                           now - entries[k].meta.inserted_at > entries[k].meta.ttl}
            IN /\ DOMAIN entries' = DOMAIN entries \ old
               /\ \A k \in DOMAIN entries \ old : entries'[k] = entries[k]
               /\ lru' = SelectSeq(lru, LAMBDA k : k \notin old)
               /\ \A k \in old : PoolGet(entries', k) = None
               /\ PoolLen(entries') = PoolLen(entries) - Cardinality(old)
               /\ heap' = heap
       /\ (poolRet'.op = "pop" /\ PopPriority(poolRet'.limit)) =>
               LET selected == poolRet'.selected
                   limit == poolRet'.limit
                   live == LiveIds(heap, entries)
               IN /\ \A i \in 1..Len(selected) :
                        /\ selected[i].meta.id \in live
                        /\ PoolGet(entries, selected[i].meta.id) = Some(selected[i].tx)
                  /\ \A i, j \in 1..Len(selected) :
                        i # j => selected[i].meta.id # selected[j].meta.id
                  /\ Len(selected) =
                        IF limit < Cardinality(live) THEN limit ELSE Cardinality(live)]_vars

\* C30 witness: the last call was a gc_ttl that removed one transaction and
\* kept another; the removed one has no entry and no LRU slot, and its heap
\* item is still in the heap.
C30_Witness ==
    /\ poolRet.op = "gc_ttl"
    /\ poolRet.gone # {}
    /\ DOMAIN entries # {}
    /\ \A k \in poolRet.gone : k \notin DOMAIN entries /\ ~SeqHas(lru, k)
    /\ \E item \in BagToSet(heap) : item.id \in poolRet.gone

(***************************************************************************)
(*                          Properties of PoH                              *)
(***************************************************************************)

\* C31: PoH round trip: the text generate(n) returns verifies against the
\* seed the generator held at the call; it depends on that seed and n only
\* (not on the counter); and the call leaves counter + 1 and the seed
\* H(h || counter) behind, h being the end of the chain.
C31_PohRoundTrip ==
    pohRet.op = "generate" =>
        /\ PohVerify(pohRet.seed, pohRet.iterations, pohRet.out)
        /\ \A c \in 0..MaxPohCalls :
              PohGenerate([seed |-> pohRet.seed, counter |-> c], pohRet.iterations).out
                 = pohRet.out
        /\ poh.counter = pohRet.counter + 1
        /\ poh.seed = Sha256((IterSha(pohRet.seed, pohRet.iterations) + poh.counter) % HashSpace)

\* C31 witness: a second generate call, of more than one iteration, whose
\* text verifies against the seed from before the call and does not verify
\* against the seed the call left behind.
C31_Witness ==
    /\ pohRet.op = "generate"
    /\ pohRet.counter > 0
    /\ pohRet.iterations > 1
    /\ PohVerify(pohRet.seed, pohRet.iterations, pohRet.out)
    /\ ~PohVerify(poh.seed, pohRet.iterations, pohRet.out)
    /\ poh.seed # pohRet.seed

(***************************************************************************)
(*            Properties of the engine under concurrent calls              *)
(***************************************************************************)

\* C32: finalization is atomic with its threshold check: in every step that
\* appends a block h to finalized, 3 * yes_weight(h) >= 2 * total_stake and
\* total_stake > 0 hold in the state the append is made in, and h has not
\* been appended before.
C32_FinalizeAtThreshold ==
    [][\A h \in Hashes :
          (/\ Len(finalized') = Len(finalized) + 1
           /\ finalized'[Len(finalized')].block_hash = h)
             => /\ total_stake > 0
                /\ 3 * WeightOf(votes, h) >= 2 * total_stake
                /\ h \notin FinalizedHashes]_vars

\* C33: gossip delivery: once the send task of a broadcast has connected,
\* sent and closed, and the writer of its connection has exited on a socket
\* that is open and sound, the payload's frame is on the wire.
C33_GossipFrameWritten ==
    (/\ stask = "done" /\ conn = "closed"
     /\ writer = "exited" /\ stream = "open")
        => wire = <<Serialize(Unwrap(spayload))>>

(***************************************************************************)
(*                  Properties of the pool's eviction                      *)
(***************************************************************************)

\* C34: priority eviction: when an insert into a full pool evicts an entry
\* to make room, no entry that remains after the eviction has a lower
\* priority than the evicted one.
C34_EvictsLowestPriority ==
    [][(/\ poolRet'.op = "insert" /\ poolRet'.res = "Ok"
        /\ Insert(poolRet'.tx)
        /\ poolRet'.victim # None
        /\ poolRet'.victim \in DOMAIN entries)
          => \A k \in DOMAIN entries \ {poolRet'.victim} :
                ~Higher(PrioOf(entries[poolRet'.victim]), PrioOf(entries[k]))]_vars



(* C35: through propose_if_leader, handle_proposal and handle_vote the      *)
(* finalized chain holds at most one block per slot, and no block_hash      *)
(* appears in it twice.                                                     *)
C35_OneBlockPerSlot ==
    \A i, j \in 1..Len(finalized) :
        i # j => /\ finalized[i].slot # finalized[j].slot
                 /\ finalized[i].block_hash # finalized[j].block_hash


(* C36: once every concurrent get/insert/modify/flush call has returned,    *)
(* each cached entry that is not dirty equals the account in the store, and *)
(* the cached account of a key is the one written by the last completed     *)
(* insert or modify of that key.                                            *)
C36_WriteBackConsistent ==
    (\A c \in Callers : ccall[c].op = "none") =>
        \A k \in Accounts :
            /\ (cache[k] # None /\ ~Unwrap(cache[k]).dirty)
                  => store[k] = Some(Unwrap(cache[k]).lamports)
            /\ last_write[k] # None
                  => cache[k] # None /\ Some(Unwrap(cache[k]).lamports) = last_write[k]


(* C37: of the concurrent insert calls that carry the same transaction at   *)
(* most one returns Ok, and the heap never holds two items for a TxId that  *)
(* is in the pool.                                                          *)
C37_DedupUnderConcurrency ==
    /\ \A c, d \in Callers :
          (c # d /\ icall[c].tx # None /\ icall[c].tx = icall[d].tx /\ icall[c].res = Some("Ok"))
              => icall[d].res # Some("Ok")
    /\ \A id \in DOMAIN entries :
          Cardinality({i \in BagToSet(heap) : i.id = id}) <= 1
          /\ \A i \in BagToSet(heap) : i.id = id => CopiesIn(i, heap) = 1

(* C38: in every reachable state of the pool len() <= max_size, whatever    *)
(* the interleaving of insert, remove, pop_priority and gc_ttl calls and    *)
(* whatever the lru_capacity.                                               *)
C38_CapacityBound == Cardinality(DOMAIN entries) <= max_size


(* C39: a connection accepted by the listener stays alive after the accept  *)
(* handler has finished: its reader and its writer stop only when the peer  *)
(* has closed the stream, the socket has failed or close() has been called; *)
(* dropping the Connection value does not stop them.                        *)
C39_SurvivesHandler ==
    [][((reader = "running" /\ reader' = "exited") \/ (writer = "running" /\ writer' = "exited"))
          => (stream # "open" \/ conn = "closed")]_vars


(* C40: a ban lasts: ban_peer on a known peer leaves it not healthy, and a  *)
(* peer that is not healthy and still in the store stays not healthy until  *)
(* the instant of its ban has passed, whatever add_peer and update_seen     *)
(* calls are made in between.                                               *)
C40_BanDurable ==
    [][\A id \in PeerIds :
          /\ (\E dur \in BanDurations : id \in DOMAIN inner /\ ban_peer(id, dur))
                => ~healthy(inner'[id], instant')
          /\ (/\ id \in DOMAIN inner /\ ~healthy(inner[id], instant)
              /\ id \in DOMAIN inner' /\ instant' <= Unwrap(inner[id].ban))
                => ~healthy(inner'[id], instant')]_vars

====
